---------------------------- MODULE Spec2Model ----------------------------
(***************************************************************************)
(* A model of the rustberg metadata codec (src/iceberg/spec): the textual  *)
(* table-metadata codec with its version dispatch, the schema type codec,  *)
(* and the derived serde encoders and decoders they are built from.        *)
(*                                                                         *)
(* A textual document is a tree of JSON values.  An object is a SEQUENCE   *)
(* of entries, so that a document can hold the same key more than once, as *)
(* the text a serializer writes can.  A Rust value is modelled by a        *)
(* function from field names to values (a struct), a one-field record      *)
(* named after the variant (an enum, Option, Result), a sequence (Vec,     *)
(* String as a sequence of characters) or a function from keys (HashMap).  *)
(***************************************************************************)
EXTENDS Integers, Sequences, FiniteSets, TLC

VARIABLES
    pc,         \* position of the run: which codec call comes next
    job,        \* which entry point the run exercises
    input,      \* the document handed to the decoder
    decoded,    \* Result of the first decode, or the value built in memory
    emitted,    \* the document the serializer wrote
    redecoded,  \* Result of decoding the emitted document
    statics     \* the lazily initialised statics of the process, where a
                \* run follows them (Nil where it does not)

vars == <<pc, job, input, decoded, emitted, redecoded, statics>>

-----------------------------------------------------------------------------
(* JSON values (serde_json::Value and the text it is read from).           *)

JNull == [null |-> TRUE]
JBool(b) == [bool |-> b]
\* an integer that fits 32 bits
JInt(n) == [int |-> n]
\* an integer that fits i64 but not 32 bits (a snapshot id, a timestamp);
\* n names which one
JLong(n) == [long |-> n]
\* an integer above i64::MAX (serde_json keeps it as u64)
JBig == [big |-> TRUE]
\* a number with a fraction or an exponent
JFloat == [float |-> TRUE]
JStr(s) == [str |-> s]
JArr(a) == [arr |-> a]
JObj(e) == [obj |-> e]

Kind(v) == CHOOSE k \in DOMAIN v : TRUE
IsNull(v) == Kind(v) = "null"
IsStr(v) == Kind(v) = "str"
IsArr(v) == Kind(v) = "arr"
IsObj(v) == Kind(v) = "obj"

Entry(k, v) == [k |-> k, v |-> v]

HasKey(entries, key) == \E i \in 1..Len(entries) : entries[i].k = key

\* serde_json's Map::insert: of several entries with one key the last stays
Get(entries, key) ==
    entries[CHOOSE i \in 1..Len(entries) :
                /\ entries[i].k = key
                /\ \A j \in (i+1)..Len(entries) : entries[j].k # key].v

Keys(entries) == {entries[i].k : i \in 1..Len(entries)}

\* the entries whose key is not in ks, in their order
RECURSIVE Without(_, _)
Without(entries, ks) ==
    IF entries = <<>> THEN <<>>
    ELSE IF Head(entries).k \in ks THEN Without(Tail(entries), ks)
    ELSE <<Head(entries)>> \o Without(Tail(entries), ks)

\* the entries with key set to v: replaced in place, or appended
SetKey(entries, key, v) ==
    IF HasKey(entries, key)
    THEN [i \in 1..Len(entries) |->
            IF entries[i].k = key THEN Entry(key, v) ELSE entries[i]]
    ELSE Append(entries, Entry(key, v))

-----------------------------------------------------------------------------
(* Result and Option.                                                      *)

Ok(x) == [Ok |-> x]
Err(e) == [Err |-> e]
IsOk(r) == "Ok" \in DOMAIN r
IsErr(r) == "Err" \in DOMAIN r

None == [None |-> TRUE]
Some(x) == [Some |-> x]
IsSome(o) == "Some" \in DOMAIN o
IsNone(o) == "None" \in DOMAIN o

\* F of the value of x, with x evaluated once
With(x, F(_)) == CHOOSE y \in {F(v) : v \in {x}} : TRUE

\* the sequence f with its elements evaluated
Evaluated(f) == <<>> \o f

\* a serde error: its kind, and for the custom errors the text they quote
Error(kind) == [kind |-> kind]
ErrorAt(kind, text) == [kind |-> kind, text |-> text]

-----------------------------------------------------------------------------
(* Strings are sequences of one-character strings.                         *)

StartsWith(s, prefix) ==
    /\ Len(s) >= Len(prefix)
    /\ SubSeq(s, 1, Len(prefix)) = prefix

DigitChars == <<"0", "1", "2", "3", "4", "5", "6", "7", "8", "9">>
IsDigit(c) == \E i \in DOMAIN DigitChars : DigitChars[i] = c
DigitValue(c) == (CHOOSE i \in DOMAIN DigitChars : DigitChars[i] = c) - 1
\* \d+ of the regex crate: decimal digits of any script ("U+0663" stands for
\* the one character ARABIC-INDIC DIGIT THREE)
AllDigits(s) == \A i \in 1..Len(s) : IsDigit(s[i]) \/ s[i] = "U+0663"

\* \s of the regex crate, as far as the documents of the model go
IsSpace(c) == c \in {" ", "\t"}

\* format!("{}", n) of a u8
RECURSIVE FormatUInt(_)
FormatUInt(n) ==
    IF n < 10 THEN <<DigitChars[n + 1]>>
    ELSE FormatUInt(n \div 10) \o <<DigitChars[(n % 10) + 1]>>

\* A u32 is kept as its two 16-bit halves [hi, lo].
U32(n) == [hi |-> n \div 65536, lo |-> n % 65536]

\* format!("{}", n) of a u32
RECURSIVE FormatU32(_)
FormatU32(n) ==
    With(n, LAMBDA v :
        LET low == (v.hi % 10) * 65536 + v.lo IN
        IF v.hi = 0 /\ v.lo < 10 THEN <<DigitChars[v.lo + 1]>>
        ELSE FormatU32([hi |-> v.hi \div 10, lo |-> low \div 10])
                \o <<DigitChars[(low % 10) + 1]>>)

\* str::parse::<u32>() after the digits that gave acc: a character that is
\* no ASCII digit fails, and so does a value that does not fit (checked_mul
\* by 10, checked_add of the digit)
RECURSIVE ParseU32From(_, _)
ParseU32From(s, acc) ==
    IF s = <<>> THEN Some(acc)
    ELSE IF ~IsDigit(Head(s)) THEN None
    ELSE With([lo |-> acc.lo * 10 + DigitValue(Head(s)), hi |-> acc.hi * 10],
              LAMBDA next :
                IF next.hi + next.lo \div 65536 >= 65536 THEN None
                ELSE ParseU32From(Tail(s), [hi |-> next.hi + next.lo \div 65536,
                                            lo |-> next.lo % 65536]))

ParseU32(s) == IF s = <<>> THEN None ELSE ParseU32From(s, U32(0))

\* a parse that keeps the low eight bits of the number
ParseU8_wrapping(s) ==
    With(ParseU32(s), LAMBDA n :
        IF IsNone(n) THEN None ELSE Some(n.Some.lo % 256))

\* str::parse::<u8>(): the digits of a number up to u8::MAX
ParseU8(s) ==
    With(ParseU32(s), LAMBDA n :
        IF IsNone(n) \/ n.Some.hi > 0 \/ n.Some.lo > 255 THEN None
        ELSE Some(n.Some.lo))

\* the words the codecs look for and write
Literal ==
    [fixed |-> <<"f", "i", "x", "e", "d">>,
     decimal |-> <<"d", "e", "c", "i", "m", "a", "l">>,
     bucket |-> <<"b", "u", "c", "k", "e", "t">>,
     truncate |-> <<"t", "r", "u", "n", "c", "a", "t", "e">>,
     struct |-> <<"s", "t", "r", "u", "c", "t">>,
     list |-> <<"l", "i", "s", "t">>,
     map |-> <<"m", "a", "p">>,
     branch |-> <<"b", "r", "a", "n", "c", "h">>,
     tag |-> <<"t", "a", "g">>,
     TableMetadataV1 |-> <<"T", "a", "b", "l", "e", "M", "e", "t", "a", "d", "a", "t", "a", "V", "1">>,
     TableMetadataV2 |-> <<"T", "a", "b", "l", "e", "M", "e", "t", "a", "d", "a", "t", "a", "V", "2">>]

\* uuid::Uuid: parsing takes the hexadecimal digits in either case, emitting
\* writes lower case.  The layout of the 32 digits is not modelled: a
\* non-empty run of hexadecimal digits stands for a UUID, kept in the model
\* as the lower-case text that emitting it writes.
HexLetters ==
    [lower |-> <<"a", "b", "c", "d", "e", "f">>,
     upper |-> <<"A", "B", "C", "D", "E", "F">>]
IsHex(c) ==
    \/ IsDigit(c)
    \/ \E i \in 1..6 : c = HexLetters.lower[i] \/ c = HexLetters.upper[i]
ToLower(c) ==
    IF \E i \in 1..6 : c = HexLetters.upper[i]
    THEN HexLetters.lower[CHOOSE i \in 1..6 : c = HexLetters.upper[i]]
    ELSE c
Uuid_parse(s) ==
    IF s # <<>> /\ \A i \in 1..Len(s) : IsHex(s[i])
    THEN Ok([i \in 1..Len(s) |-> ToLower(s[i])])
    ELSE Err(Error("invalid uuid"))

-----------------------------------------------------------------------------
(* The Rust types of the codec, as descriptors the derived encoders and    *)
(* decoders below are driven by.  Each struct lists its fields in the      *)
(* order of the source, with the key that rename_all gives each.           *)

I32 == [k |-> "i32"]
I64 == [k |-> "i64"]
Bool == [k |-> "bool"]
StringT == [k |-> "String"]
UuidT == [k |-> "Uuid"]
Opt(t) == [k |-> "Option", of |-> t]
Vec(t) == [k |-> "Vec", of |-> t]
HashMapT(t) == [k |-> "HashMap", of |-> t]
Struct(name) == [k |-> "struct", name |-> name]
UnitEnum(name) == [k |-> "enum", name |-> name]
IcebergTypeT == [k |-> "IcebergType"]
PrimitiveTypeT == [k |-> "PrimitiveType"]
TransformT == [k |-> "Transform"]
SnapshotV1T == [k |-> "SnapshotV1"]
RefTypeT == [k |-> "RefType"]

Field(f, key, ty) == [f |-> f, key |-> key, ty |-> ty, flatten |-> FALSE]
\* #[serde(flatten)]
Flatten(f, ty) == [f |-> f, key |-> "", ty |-> ty, flatten |-> TRUE]

\* a struct: the value of its serde(tag = ..) attribute (<<>> without one),
\* the name the tag carries, and its fields
StructDef(tag, name, fields) == [tag |-> tag, name |-> name, fields |-> fields]

\* TableMetadataV2 with refs declared HashMap rather than Option<HashMap>
TableMetadataV2_refs_required ==
    StructDef(<<"format-version">>, Literal.TableMetadataV2, <<
        Field("format_version", "format-version", I32),
        Field("table_uuid", "table-uuid", UuidT),
        Field("location", "location", StringT),
        Field("last_sequence_number", "last-sequence-number", I64),
        Field("last_updated_ms", "last-updated-ms", I64),
        Field("last_column_id", "last-column-id", I32),
        Field("schemas", "schemas", Vec(Struct("IcebergSchemaV2"))),
        Field("current_schema_id", "current-schema-id", I32),
        Field("partition_specs", "partition-specs", Vec(Struct("PartitionSpec"))),
        Field("default_spec_id", "default-spec-id", I32),
        Field("last_partition_id", "last-partition-id", I32),
        Field("properties", "properties", Opt(HashMapT(StringT))),
        Field("current_snapshot_id", "current-snapshot-id", Opt(I64)),
        Field("snapshots", "snapshots", Opt(Vec(Struct("SnapshotV2")))),
        Field("snapshot_log", "snapshot-log", Opt(Vec(Struct("SnapshotLog")))),
        Field("metadata_log", "metadata-log", Opt(Vec(Struct("MetadataLog")))),
        Field("sort_orders", "sort-orders", Vec(Struct("SortOrders"))),
        Field("default_sort_order_id", "default-sort-order-id", I32),
        Field("refs", "refs", HashMapT(Struct("SnapshotRefV2"))),
        Field("statistics", "statistics", Opt(Struct("Statistics"))) >>)

\* TableMetadataV2 with sort_orders declared as TableMetadataV1 declares it
TableMetadataV2_sort_orders_optional ==
    StructDef(<<"format-version">>, Literal.TableMetadataV2, <<
        Field("format_version", "format-version", I32),
        Field("table_uuid", "table-uuid", UuidT),
        Field("location", "location", StringT),
        Field("last_sequence_number", "last-sequence-number", I64),
        Field("last_updated_ms", "last-updated-ms", I64),
        Field("last_column_id", "last-column-id", I32),
        Field("schemas", "schemas", Vec(Struct("IcebergSchemaV2"))),
        Field("current_schema_id", "current-schema-id", I32),
        Field("partition_specs", "partition-specs", Vec(Struct("PartitionSpec"))),
        Field("default_spec_id", "default-spec-id", I32),
        Field("last_partition_id", "last-partition-id", I32),
        Field("properties", "properties", Opt(HashMapT(StringT))),
        Field("current_snapshot_id", "current-snapshot-id", Opt(I64)),
        Field("snapshots", "snapshots", Opt(Vec(Struct("SnapshotV2")))),
        Field("snapshot_log", "snapshot-log", Opt(Vec(Struct("SnapshotLog")))),
        Field("metadata_log", "metadata-log", Opt(Vec(Struct("MetadataLog")))),
        Field("sort_orders", "sort-orders", Opt(Vec(Struct("SortOrders")))),
        Field("default_sort_order_id", "default-sort-order-id", I32),
        Field("refs", "refs", Opt(HashMapT(Struct("SnapshotRefV2")))),
        Field("statistics", "statistics", Opt(Struct("Statistics"))) >>)

TableMetadataV2 ==
    StructDef(<<"format-version">>, Literal.TableMetadataV2, <<
        Field("format_version", "format-version", I32),
        Field("table_uuid", "table-uuid", UuidT),
        Field("location", "location", StringT),
        Field("last_sequence_number", "last-sequence-number", I64),
        Field("last_updated_ms", "last-updated-ms", I64),
        Field("last_column_id", "last-column-id", I32),
        Field("schemas", "schemas", Vec(Struct("IcebergSchemaV2"))),
        Field("current_schema_id", "current-schema-id", I32),
        Field("partition_specs", "partition-specs", Vec(Struct("PartitionSpec"))),
        Field("default_spec_id", "default-spec-id", I32),
        Field("last_partition_id", "last-partition-id", I32),
        Field("properties", "properties", Opt(HashMapT(StringT))),
        Field("current_snapshot_id", "current-snapshot-id", Opt(I64)),
        Field("snapshots", "snapshots", Opt(Vec(Struct("SnapshotV2")))),
        Field("snapshot_log", "snapshot-log", Opt(Vec(Struct("SnapshotLog")))),
        Field("metadata_log", "metadata-log", Opt(Vec(Struct("MetadataLog")))),
        Field("sort_orders", "sort-orders", Vec(Struct("SortOrders"))),
        Field("default_sort_order_id", "default-sort-order-id", I32),
        Field("refs", "refs", Opt(HashMapT(Struct("SnapshotRefV2")))),
        Field("statistics", "statistics", Opt(Struct("Statistics"))) >>)

\* TableMetadataV1 with the legacy schema declared Option
TableMetadataV1_schema_optional ==
    StructDef(<<"format-version">>, Literal.TableMetadataV1, <<
        Field("format_version", "format-version", I32),
        Field("table_uuid", "table-uuid", Opt(UuidT)),
        Field("location", "location", StringT),
        Field("last_updated_ms", "last-updated-ms", I64),
        Field("last_column_id", "last-column-id", I32),
        Field("schema", "schema", Opt(Struct("IcebergSchemaV1"))),
        Field("schemas", "schemas", Opt(Vec(Struct("IcebergSchemaV1")))),
        Field("current_schema_id", "current-schema-id", Opt(I32)),
        Field("partition_spec", "partition-spec", Vec(Struct("PartitionField"))),
        Field("partition_specs", "partition-specs", Vec(Struct("PartitionSpec"))),
        Field("default_spec_id", "default-spec-id", Opt(I32)),
        Field("last_partition_id", "last-partition-id", Opt(I32)),
        Field("properties", "properties", Opt(HashMapT(StringT))),
        Field("current_snapshot_id", "current-snapshot-id", Opt(I64)),
        Field("snapshots", "snapshots", Opt(Vec(SnapshotV1T))),
        Field("snapshot_log", "snapshot-log", Opt(Vec(Struct("SnapshotLog")))),
        Field("metadata_log", "metadata-log", Opt(Vec(Struct("MetadataLog")))),
        Field("sort_orders", "sort-orders", Opt(Vec(Struct("SortOrders")))),
        Field("default_sort_order_id", "default-sort-order-id", I32),
        Field("statistics", "statistics", Opt(Struct("Statistics"))) >>)

\* TableMetadataV1 with both legacy fields declared Option
TableMetadataV1_legacy_optional ==
    [TableMetadataV1_schema_optional EXCEPT
        !.fields[9] = Field("partition_spec", "partition-spec",
                            Opt(Vec(Struct("PartitionField"))))]

TableMetadataV1 ==
    StructDef(<<"format-version">>, Literal.TableMetadataV1, <<
        Field("format_version", "format-version", I32),
        Field("table_uuid", "table-uuid", Opt(UuidT)),
        Field("location", "location", StringT),
        Field("last_updated_ms", "last-updated-ms", I64),
        Field("last_column_id", "last-column-id", I32),
        Field("schema", "schema", Struct("IcebergSchemaV1")),
        Field("schemas", "schemas", Opt(Vec(Struct("IcebergSchemaV1")))),
        Field("current_schema_id", "current-schema-id", Opt(I32)),
        Field("partition_spec", "partition-spec", Vec(Struct("PartitionField"))),
        Field("partition_specs", "partition-specs", Vec(Struct("PartitionSpec"))),
        Field("default_spec_id", "default-spec-id", Opt(I32)),
        Field("last_partition_id", "last-partition-id", Opt(I32)),
        Field("properties", "properties", Opt(HashMapT(StringT))),
        Field("current_snapshot_id", "current-snapshot-id", Opt(I64)),
        Field("snapshots", "snapshots", Opt(Vec(SnapshotV1T))),
        Field("snapshot_log", "snapshot-log", Opt(Vec(Struct("SnapshotLog")))),
        Field("metadata_log", "metadata-log", Opt(Vec(Struct("MetadataLog")))),
        Field("sort_orders", "sort-orders", Opt(Vec(Struct("SortOrders")))),
        Field("default_sort_order_id", "default-sort-order-id", I32),
        Field("statistics", "statistics", Opt(Struct("Statistics"))) >>)

SnapshotLog ==
    StructDef(<<>>, <<>>, <<
        Field("snapshot_id", "snapshot-id", I64),
        Field("timestamp_ms", "timestamp-ms", I64) >>)

MetadataLog ==
    StructDef(<<>>, <<>>, <<
        Field("metadata_file", "metadata-file", StringT),
        Field("timestamp_ms", "timestamp-ms", I64) >>)

Statistics == StructDef(<<>>, <<>>, <<>>)

IcebergSchemaV2 ==
    StructDef(<<>>, <<>>, <<
        Field("schema_id", "schema-id", I32),
        Field("identifier_field_ids", "identifier-field-ids", Opt(Vec(I32))),
        Flatten("schema", Struct("StructType")) >>)

IcebergSchemaV1 ==
    StructDef(<<>>, <<>>, <<
        Field("schema_id", "schema-id", Opt(I32)),
        Field("identifier_field_ids", "identifier-field-ids", Opt(Vec(I32))),
        Flatten("schema", Struct("StructType")) >>)

StructType ==
    StructDef(<<"type">>, Literal.struct, <<
        Field("fields", "fields", Vec(Struct("StructField"))) >>)

StructField ==
    StructDef(<<>>, <<>>, <<
        Field("id", "id", I32),
        Field("name", "name", StringT),
        Field("required", "required", Bool),
        Field("field_type", "type", IcebergTypeT),
        Field("doc", "doc", Opt(StringT)),
        Field("initial_default", "initial-default", Opt(StringT)),
        Field("write_default", "write-default", Opt(StringT)) >>)

ListType ==
    StructDef(<<"type">>, Literal.list, <<
        Field("element_id", "element-id", I32),
        Field("element_required", "element-required", Bool),
        Field("element", "element", IcebergTypeT) >>)

MapType ==
    StructDef(<<"type">>, Literal.map, <<
        Field("key_id", "key-id", I32),
        Field("key", "key", IcebergTypeT),
        Field("value_id", "value-id", I32),
        Field("value_required", "value-required", Bool),
        Field("value", "value", IcebergTypeT) >>)

PartitionSpec ==
    StructDef(<<>>, <<>>, <<
        Field("spec_id", "spec-id", I32),
        Field("fields", "fields", Vec(Struct("PartitionField"))) >>)

PartitionField ==
    StructDef(<<>>, <<>>, <<
        Field("source_id", "source-id", I32),
        Field("field_id", "field-id", I32),
        Field("name", "name", StringT),
        Field("transform", "transform", TransformT) >>)

SortOrders ==
    StructDef(<<>>, <<>>, <<
        Field("order_id", "order-id", I32),
        Field("fields", "fields", Vec(Struct("SortField"))) >>)

SortField ==
    StructDef(<<>>, <<>>, <<
        Field("transform", "transform", TransformT),
        Field("source_id", "source-id", I32),
        Field("direction", "direction", UnitEnum("Direction")),
        Field("null_order", "null-order", UnitEnum("NullOrder")) >>)

SnapshotV2 ==
    StructDef(<<>>, <<>>, <<
        Field("snapshot_id", "snapshot-id", I64),
        Field("parent_snapshot_id", "parent-snapshot-id", Opt(I64)),
        Field("sequence_number", "sequence-number", I64),
        Field("timestamp_ms", "timestamp-ms", I64),
        Field("summary", "summary", Struct("Summary")),
        Field("manifest_list", "manifest-list", StringT),
        Field("schema_id", "schema-id", Opt(I32)) >>)

\* the derived (remote = "Self") shape of SnapshotV1
SnapshotV1 ==
    StructDef(<<>>, <<>>, <<
        Field("snapshot_id", "snapshot-id", I64),
        Field("parent_snapshot_id", "parent-snapshot-id", Opt(I64)),
        Field("timestamp_ms", "timestamp-ms", I64),
        Field("manifest_list", "manifest-list", Opt(StringT)),
        Field("manifests", "manifests", Opt(Vec(StringT))),
        Field("summary", "summary", Opt(Struct("Summary"))),
        Field("schema_id", "schema-id", Opt(I64)) >>)

\* Summary with rest as a field of its own (no flatten)
Summary_rest_nested ==
    StructDef(<<>>, <<>>, <<
        Field("operation", "operation", UnitEnum("Operation")),
        Field("rest", "rest", HashMapT(StringT)) >>)

Summary ==
    StructDef(<<>>, <<>>, <<
        Field("operation", "operation", UnitEnum("Operation")),
        Flatten("rest", HashMapT(StringT)) >>)

SnapshotRefV2 ==
    StructDef(<<>>, <<>>, <<
        Field("snapshot_id", "snapshot-id", I64),
        Flatten("ref_type", RefTypeT),
        Field("max_ref_age_ms", "max-ref-age-ms", Opt(I64)) >>)

\* the fields of RefType::Branch
RefType_Branch ==
    StructDef(<<>>, <<>>, <<
        Field("min_snapshots_to_keep", "min-snapshots-to-keep", Opt(I32)),
        Field("max_snapshot_age_ms", "max-snapshot-age-ms", Opt(I64)) >>)

\* The structs of the manifest list.  A field of them carries its serde
\* attributes: the names alias adds to its own and the value default gives
\* it when the record holds none of them (None without the attribute).
\* a variant without the alias attribute
FieldWith_no_alias(f, ty, alias, default) ==
    [f |-> f, key |-> f, ty |-> ty, flatten |-> FALSE,
     alias |-> {}, default |-> default]

FieldWith(f, ty, alias, default) ==
    [f |-> f, key |-> f, ty |-> ty, flatten |-> FALSE,
     alias |-> alias, default |-> default]

FileTypeT == [k |-> "FileType"]
\* Option<Vec<u8>> under #[serde(with = "serde_bytes")]
BytesT == [k |-> "serde_bytes"]

\* FileType with another discriminant for Delete
FileType_delete_two ==
    << [v |-> "Data", repr |-> 0], [v |-> "Delete", repr |-> 2] >>

\* #[repr(i32)] enum FileType
FileType ==
    << [v |-> "Data", repr |-> 0], [v |-> "Delete", repr |-> 1] >>

FieldSummaryV2 ==
    StructDef(<<>>, <<>>, <<
        FieldWith("contains_null", Bool, {}, None),
        FieldWith("contains_nan", Opt(Bool), {}, None),
        FieldWith("lower_bound", BytesT, {}, None),
        FieldWith("upper_bound", BytesT, {}, None) >>)

ManifestListV2 ==
    StructDef(<<>>, <<>>, <<
        FieldWith("manifest_path", StringT, {}, None),
        FieldWith("manifest_length", I64, {}, None),
        FieldWith("partition_spec_id", I32, {}, None),
        FieldWith("content", FileTypeT, {}, Some([Data |-> TRUE])),
        FieldWith("sequence_number", I64, {}, Some(0)),
        FieldWith("min_sequence_number", I64, {}, Some(0)),
        FieldWith("added_snapshot_id", I64, {}, None),
        FieldWith("added_files_count", I32, {"added_data_files_count"}, Some(0)),
        FieldWith("existing_files_count", I32, {"existing_data_files_count"}, Some(0)),
        FieldWith("deleted_files_count", I32, {"deleted_data_files_count"}, Some(0)),
        FieldWith("added_rows_count", I64, {}, Some(0)),
        FieldWith("existing_rows_count", I64, {}, Some(0)),
        FieldWith("deleted_rows_count", I64, {}, Some(0)),
        FieldWith("partitions", Opt(Vec(Struct("FieldSummaryV2"))), {}, Some(None)),
        FieldWith("key_metadata", BytesT, {}, Some(None)) >>)

ManifestListV1 ==
    StructDef(<<>>, <<>>, <<
        FieldWith("manifest_path", StringT, {}, None),
        FieldWith("manifest_length", I64, {}, None),
        FieldWith("partition_spec_id", I32, {}, None),
        FieldWith("added_snapshot_id", I64, {}, None),
        FieldWith("added_files_count", Opt(I32), {"added_data_files_count"}, Some(None)),
        FieldWith("existing_files_count", Opt(I32), {"existing_data_files_count"}, Some(None)),
        FieldWith("deleted_files_count", Opt(I32), {"deleted_data_files_count"}, Some(None)),
        FieldWith("added_rows_count", Opt(I64), {}, Some(None)),
        FieldWith("existing_rows_count", Opt(I64), {}, Some(None)),
        FieldWith("deleted_rows_count", Opt(I64), {}, Some(None)),
        FieldWith("partitions", Opt(Vec(Struct("FieldSummaryV2"))), {}, Some(None)),
        FieldWith("key_metadata", BytesT, {}, Some(None)) >>)

StructOf(name) ==
    CASE name = "TableMetadataV2" -> TableMetadataV2
      [] name = "TableMetadataV1" -> TableMetadataV1
      [] name = "SnapshotLog" -> SnapshotLog
      [] name = "MetadataLog" -> MetadataLog
      [] name = "Statistics" -> Statistics
      [] name = "IcebergSchemaV2" -> IcebergSchemaV2
      [] name = "IcebergSchemaV1" -> IcebergSchemaV1
      [] name = "StructType" -> StructType
      [] name = "StructField" -> StructField
      [] name = "ListType" -> ListType
      [] name = "MapType" -> MapType
      [] name = "PartitionSpec" -> PartitionSpec
      [] name = "PartitionField" -> PartitionField
      [] name = "SortOrders" -> SortOrders
      [] name = "SortField" -> SortField
      [] name = "SnapshotV2" -> SnapshotV2
      [] name = "SnapshotV1" -> SnapshotV1
      [] name = "Summary" -> Summary
      [] name = "SnapshotRefV2" -> SnapshotRefV2
      [] name = "RefType_Branch" -> RefType_Branch
      [] name = "ManifestListV2" -> ManifestListV2
      [] name = "ManifestListV1" -> ManifestListV1
      [] name = "FieldSummaryV2" -> FieldSummaryV2

\* the unit variants of an enum with the name rename_all gives each
Variant(v, name) == [v |-> v, name |-> name]

\* Direction with its variants named as they are declared (no rename_all)
Direction_as_declared ==
    << Variant("ASC", <<"A", "S", "C">>),
       Variant("DESC", <<"D", "E", "S", "C">>) >>

Direction ==
    << Variant("ASC", <<"a", "s", "c">>),
       Variant("DESC", <<"d", "e", "s", "c">>) >>

NullOrder ==
    << Variant("NullsFirst", <<"n", "u", "l", "l", "s", "-", "f", "i", "r", "s", "t">>),
       Variant("NullsLast", <<"n", "u", "l", "l", "s", "-", "l", "a", "s", "t">>) >>

Operation ==
    << Variant("Append", <<"a", "p", "p", "e", "n", "d">>),
       Variant("Replace", <<"r", "e", "p", "l", "a", "c", "e">>),
       Variant("Overwrite", <<"o", "v", "e", "r", "w", "r", "i", "t", "e">>),
       Variant("Delete", <<"d", "e", "l", "e", "t", "e">>) >>

\* the unit variants of PrimitiveType (Decimal and Fixed carry data)
PrimitiveType ==
    << Variant("Boolean", <<"b", "o", "o", "l", "e", "a", "n">>),
       Variant("Int", <<"i", "n", "t">>),
       Variant("Long", <<"l", "o", "n", "g">>),
       Variant("Float", <<"f", "l", "o", "a", "t">>),
       Variant("Double", <<"d", "o", "u", "b", "l", "e">>),
       Variant("Date", <<"d", "a", "t", "e">>),
       Variant("Time", <<"t", "i", "m", "e">>),
       Variant("Timestamp", <<"t", "i", "m", "e", "s", "t", "a", "m", "p">>),
       Variant("Timestamptz", <<"t", "i", "m", "e", "s", "t", "a", "m", "p", "t", "z">>),
       Variant("String", <<"s", "t", "r", "i", "n", "g">>),
       Variant("Uuid", <<"u", "u", "i", "d">>),
       Variant("Binary", <<"b", "i", "n", "a", "r", "y">>) >>

\* the unit variants of Transform (Bucket and Truncate carry data)
Transform ==
    << Variant("Identity", <<"i", "d", "e", "n", "t", "i", "t", "y">>),
       Variant("Year", <<"y", "e", "a", "r">>),
       Variant("Month", <<"m", "o", "n", "t", "h">>),
       Variant("Day", <<"d", "a", "y">>),
       Variant("Hour", <<"h", "o", "u", "r">>) >>

VariantsOf(name) ==
    CASE name = "Direction" -> Direction
      [] name = "NullOrder" -> NullOrder
      [] name = "Operation" -> Operation
      [] name = "PrimitiveType" -> PrimitiveType
      [] name = "Transform" -> Transform

-----------------------------------------------------------------------------
(* Decoding.  De(ty, v) is <ty as Deserialize>::deserialize of the JSON    *)
(* value v, an object being the entries of the text in their order.  An    *)
(* enum variant written as a one-entry object is not among the documents   *)
(* of the model and is not decoded.                                        *)

RECURSIVE De(_, _)
RECURSIVE DeValue(_, _)
RECURSIVE DeStruct(_, _)
RECURSIVE IcebergType_deserialize(_)
RECURSIVE SnapshotV1_deserialize(_)
RECURSIVE RefType_deserialize(_)

\* the first error of a sequence of results, or Ok of what build makes of them
FirstError(results) ==
    results[CHOOSE i \in DOMAIN results :
                /\ IsErr(results[i])
                /\ \A j \in 1..(i-1) : IsOk(results[j])]
AllOk(results) == \A i \in DOMAIN results : IsOk(results[i])

UnitValue(v) == v :> TRUE

\* a derived unit-variant enum read from a string
DeUnitEnum(variants, v) ==
    IF ~IsStr(v) THEN Err(Error("invalid type"))
    ELSE IF \E i \in DOMAIN variants : variants[i].name = v.str
    THEN Ok(UnitValue(variants[CHOOSE i \in DOMAIN variants :
                                    variants[i].name = v.str].v))
    ELSE Err(ErrorAt("unknown variant", v.str))

\* the text between a prefix and a closing character, when s has that form
Enclosed(s, prefix, close) ==
    IF /\ StartsWith(s, prefix)
       /\ Len(s) > Len(prefix)
       /\ s[Len(s)] = close
    THEN Some(SubSeq(s, Len(prefix) + 1, Len(s) - 1))
    ELSE None

\* ^fixed\[(?P<bkt>\d+)]$
try_deserialize_fixed_type(value) ==
    LET m == Enclosed(value, Literal.fixed \o <<"[">>, "]") IN
    IF IsNone(m) \/ m.Some = <<>> \/ ~AllDigits(m.Some)
    THEN Err(ErrorAt("Wrong fixed type format", value))
    ELSE LET n == ParseU32(m.Some) IN
         IF IsNone(n) THEN Err(ErrorAt("Invalid fixed type length", value))
         ELSE Ok([Fixed |-> n.Some])

\* the places of s at which \s*,\s* can hold its comma: digits before,
\* then spaces, the comma, spaces, digits after
DecimalSplit(body) ==
    {i \in 1..Len(body) :
        /\ body[i] = ","
        /\ \E a \in 1..(i-1), b \in (i+1)..Len(body) :
            /\ AllDigits(SubSeq(body, 1, a))
            /\ \A j \in (a+1)..(i-1) : IsSpace(body[j])
            /\ \A j \in (i+1)..(b-1) : IsSpace(body[j])
            /\ AllDigits(SubSeq(body, b, Len(body)))}

DecimalMaxPrecision == 38

\* ^decimal\((?P<p>\d+)\s*,\s*(?P<s>\d+)\)$
try_deserialize_decimal_type(value) ==
    LET m == Enclosed(value, Literal.decimal \o <<"(">>, ")") IN
    IF IsNone(m) \/ DecimalSplit(m.Some) = {}
    THEN Err(ErrorAt("Wrong decimal type format", value))
    ELSE LET body == m.Some
             i == CHOOSE c \in DecimalSplit(body) : TRUE
             p == SubSeq(body, 1, CHOOSE a \in 1..(i-1) :
                            /\ AllDigits(SubSeq(body, 1, a))
                            /\ \A j \in (a+1)..(i-1) : IsSpace(body[j]))
             s == SubSeq(body, CHOOSE b \in (i+1)..Len(body) :
                            /\ AllDigits(SubSeq(body, b, Len(body)))
                            /\ \A j \in (i+1)..(b-1) : IsSpace(body[j]),
                         Len(body))
             precision == ParseU8(p)
             scale == ParseU32(s)
         IN  IF IsNone(precision)
             THEN Err(ErrorAt("Wrong decimal precision", value))
             ELSE IF precision.Some > DecimalMaxPrecision
             THEN Err(ErrorAt("Wrong decimal precision. Must be < 38", value))
             ELSE IF IsNone(scale)
             THEN Err(ErrorAt("Wrong decimal scale", value))
             ELSE Ok([Decimal |-> [precision |-> precision.Some,
                                   scale |-> scale.Some]])

\* PrimitiveType::deserialize trying the bare names when the parameter
\* does not parse
PrimitiveType_deserialize_falling_through(v) ==
    IF ~IsStr(v) THEN Err(Error("invalid type"))
    ELSE IF StartsWith(v.str, Literal.fixed) /\ IsOk(try_deserialize_fixed_type(v.str))
    THEN try_deserialize_fixed_type(v.str)
    ELSE IF StartsWith(v.str, Literal.decimal) /\ IsOk(try_deserialize_decimal_type(v.str))
    THEN try_deserialize_decimal_type(v.str)
    ELSE DeUnitEnum(PrimitiveType, v)

PrimitiveType_deserialize(v) ==
    IF ~IsStr(v) THEN Err(Error("invalid type"))
    ELSE IF StartsWith(v.str, Literal.fixed) THEN try_deserialize_fixed_type(v.str)
    ELSE IF StartsWith(v.str, Literal.decimal) THEN try_deserialize_decimal_type(v.str)
    ELSE DeUnitEnum(PrimitiveType, v)

\* ^bucket\[(?P<bucket>\d+)\]$
try_deserialize_bucket(value) ==
    LET m == Enclosed(value, Literal.bucket \o <<"[">>, "]") IN
    IF IsNone(m) \/ m.Some = <<>> \/ ~AllDigits(m.Some)
    THEN Err(ErrorAt("Wrong bucket format", value))
    ELSE LET n == ParseU32(m.Some) IN
         IF IsNone(n) THEN Err(ErrorAt("Invalid bucket number", value))
         ELSE Ok([Bucket |-> n.Some])

\* ^truncate\[(?P<truncate>\d+)\]$
try_deserialize_truncate(value) ==
    LET m == Enclosed(value, Literal.truncate \o <<"[">>, "]") IN
    IF IsNone(m) \/ m.Some = <<>> \/ ~AllDigits(m.Some)
    THEN Err(ErrorAt("Wrong truncate format", value))
    ELSE LET n == ParseU32(m.Some) IN
         IF IsNone(n) THEN Err(ErrorAt("Invalid truncate number", value))
         ELSE Ok([Truncate |-> n.Some])

Transform_deserialize(v) ==
    IF ~IsStr(v) THEN Err(Error("invalid type"))
    ELSE IF StartsWith(v.str, Literal.bucket) THEN try_deserialize_bucket(v.str)
    ELSE IF StartsWith(v.str, Literal.truncate) THEN try_deserialize_truncate(v.str)
    ELSE DeUnitEnum(Transform, v)

\* a field whose key the document does not hold
MissingField(ty) ==
    IF ty.k = "Option" THEN Ok(None) ELSE Err(Error("missing field"))

\* the keys of a struct's own fields, without its flattened ones
KnownKeys(def) ==
    {def.fields[i].key : i \in {j \in DOMAIN def.fields : ~def.fields[j].flatten}}

StructValue(def, results) ==
    [f \in {def.fields[i].f : i \in DOMAIN def.fields} |->
        results[CHOOSE i \in DOMAIN def.fields : def.fields[i].f = f].Ok]

\* visit_map of a derived struct: a known key fills its field, once; every other
\* entry is ignored, or handed to the flattened field; the tag of the
\* struct, if it has one, is a key like any other and is not looked at
DeStructMap(def, entries) ==
    IF \E i, j \in DOMAIN entries :
            i < j /\ entries[i].k = entries[j].k /\ entries[i].k \in KnownKeys(def)
    THEN Err(Error("duplicate field"))
    ELSE
    With(Evaluated([i \in DOMAIN def.fields |->
            LET fd == def.fields[i] IN
            IF fd.flatten THEN De(fd.ty, JObj(Without(entries, KnownKeys(def))))
            ELSE IF HasKey(entries, fd.key) THEN De(fd.ty, Get(entries, fd.key))
            ELSE MissingField(fd.ty)]),
         LAMBDA results :
            IF AllOk(results) THEN Ok(StructValue(def, results))
            ELSE FirstError(results))

\* visit_seq of a derived struct: the fields by position
DeStructSeq(def, a) ==
    IF Len(a) # Len(def.fields) THEN Err(Error("invalid length"))
    ELSE With(Evaluated([i \in DOMAIN def.fields |-> De(def.fields[i].ty, a[i])]),
              LAMBDA results :
                IF AllOk(results) THEN Ok(StructValue(def, results))
                ELSE FirstError(results))

DeStruct(def, v) ==
    IF IsObj(v) THEN DeStructMap(def, v.obj)
    ELSE IF IsArr(v) /\ \A i \in DOMAIN def.fields : ~def.fields[i].flatten THEN DeStructSeq(def, v.arr)
    ELSE Err(Error("invalid type"))

\* a variant that leaves the failing elements out
DeVec_skipping(of, v) ==
    IF ~IsArr(v) THEN Err(Error("invalid type"))
    ELSE With(Evaluated([i \in DOMAIN v.arr |-> De(of, v.arr[i])]),
              LAMBDA results :
                LET kept == SelectSeq([i \in DOMAIN results |-> results[i]],
                                      LAMBDA r : IsOk(r))
                IN  Ok(Evaluated([i \in DOMAIN kept |-> kept[i].Ok])))

DeVec(of, v) ==
    IF ~IsArr(v) THEN Err(Error("invalid type"))
    ELSE With(Evaluated([i \in DOMAIN v.arr |-> De(of, v.arr[i])]),
              LAMBDA results :
                IF AllOk(results)
                THEN Ok(Evaluated([i \in DOMAIN results |-> results[i].Ok]))
                ELSE FirstError(results))

DeHashMap(of, v) ==
    IF ~IsObj(v) THEN Err(Error("invalid type"))
    ELSE With(Evaluated([i \in DOMAIN v.obj |-> De(of, v.obj[i].v)]),
              LAMBDA results :
                LET at(key) == CHOOSE i \in DOMAIN v.obj :
                                /\ v.obj[i].k = key
                                /\ \A j \in (i+1)..Len(v.obj) : v.obj[j].k # key
                IN  IF AllOk(results)
                    THEN Ok([key \in Keys(v.obj) |-> results[at(key)].Ok])
                    ELSE FirstError(results))

\* #[serde(untagged)]: the first variant, in the order of the source, that
\* decodes the node
IcebergType_deserialize(v) ==
    With(<<PrimitiveType_deserialize(v), DeStruct(StructType, v),
           DeStruct(ListType, v), DeStruct(MapType, v)>>,
         LAMBDA tried :
            IF IsOk(tried[1]) THEN Ok([Primitive |-> tried[1].Ok])
            ELSE IF IsOk(tried[2]) THEN Ok([Struct |-> tried[2].Ok])
            ELSE IF IsOk(tried[3]) THEN Ok([List |-> tried[3].Ok])
            ELSE IF IsOk(tried[4]) THEN Ok([Map |-> tried[4].Ok])
            ELSE Err(Error("data did not match any variant of untagged enum IcebergType")))

\* SnapshotV1::deserialize without the check of the two manifest fields
SnapshotV1_deserialize_unchecked(v) == DeStruct(SnapshotV1, v)

SnapshotV1_deserialize(v) ==
    With(DeStruct(SnapshotV1, v),
         LAMBDA snapshot :
            IF IsErr(snapshot) THEN snapshot
            ELSE IF /\ IsSome(snapshot.Ok["manifest_list"])
                    /\ IsSome(snapshot.Ok["manifests"])
            THEN Err(Error("Both manifests and manifest_lists can't be present in snapshot"))
            ELSE snapshot)

\* #[serde(tag = "type")] enum RefType, read from the entries flattened into
\* it: the tag names the variant (or gives its index), a unit variant
\* ignores every other entry
RefType_deserialize(v) ==
    IF ~IsObj(v) THEN Err(Error("invalid type"))
    ELSE IF ~HasKey(v.obj, "type") THEN Err(Error("missing field"))
    ELSE IF Len(SelectSeq(v.obj, LAMBDA e : e.k = "type")) > 1
    THEN Err(Error("duplicate field"))
    ELSE LET tag == Get(v.obj, "type")
             content == JObj(Without(v.obj, {"type"}))
         IN  IF tag = JStr(Literal.branch) \/ tag = JInt(0)
             THEN With(DeStruct(RefType_Branch, content),
                       LAMBDA branch :
                         IF IsOk(branch) THEN Ok([Branch |-> branch.Ok]) ELSE branch)
             ELSE IF tag = JStr(Literal.tag) \/ tag = JInt(1)
             THEN Ok([Tag |-> TRUE])
             ELSE Err(Error("unknown variant"))

DeValue(ty, v) ==
    CASE ty.k = "i32" ->
            IF Kind(v) = "int" THEN Ok(v.int) ELSE Err(Error("invalid type"))
      [] ty.k = "i64" ->
            IF Kind(v) \in {"int", "long"} THEN Ok(v) ELSE Err(Error("invalid type"))
      [] ty.k = "bool" ->
            IF Kind(v) = "bool" THEN Ok(v.bool) ELSE Err(Error("invalid type"))
      [] ty.k = "String" ->
            IF IsStr(v) THEN Ok(v.str) ELSE Err(Error("invalid type"))
      [] ty.k = "Uuid" ->
            IF IsStr(v) THEN Uuid_parse(v.str) ELSE Err(Error("invalid type"))
      [] ty.k = "Option" ->
            IF IsNull(v) THEN Ok(None)
            ELSE With(De(ty.of, v),
                      LAMBDA r : IF IsOk(r) THEN Ok(Some(r.Ok)) ELSE r)
      [] ty.k = "Vec" -> DeVec(ty.of, v)
      [] ty.k = "HashMap" -> DeHashMap(ty.of, v)
      [] ty.k = "struct" -> DeStruct(StructOf(ty.name), v)
      [] ty.k = "enum" -> DeUnitEnum(VariantsOf(ty.name), v)
      [] ty.k = "IcebergType" -> IcebergType_deserialize(v)
      [] ty.k = "PrimitiveType" -> PrimitiveType_deserialize(v)
      [] ty.k = "Transform" -> Transform_deserialize(v)
      [] ty.k = "SnapshotV1" -> SnapshotV1_deserialize(v)
      [] ty.k = "RefType" -> RefType_deserialize(v)

De(ty, v) == With(v, LAMBDA value : DeValue(ty, value))

-----------------------------------------------------------------------------
(* Encoding.  Ser(ty, x) is the document <ty as Serialize>::serialize      *)
(* writes for the value x.                                                 *)

RECURSIVE Ser(_, _)
RECURSIVE SerValue(_, _)
RECURSIVE SerStruct(_, _)
RECURSIVE Concat(_)

Concat(seqs) ==
    IF seqs = <<>> THEN <<>>
    ELSE With(Tail(seqs), LAMBDA rest : Head(seqs) \o Concat(rest))

\* the keys of a HashMap in the order its iterator happens to give them
RECURSIVE IterationOrder(_)
IterationOrder(ks) ==
    IF ks = {} THEN <<>>
    ELSE LET key == CHOOSE key \in ks : TRUE
         IN  <<key>> \o IterationOrder(ks \ {key})

VariantName(variants, x) ==
    variants[CHOOSE i \in DOMAIN variants : variants[i].v \in DOMAIN x].name

\* PrimitiveType::serialize writing a decimal without the space after its comma
PrimitiveType_serialize_compact(x) ==
    IF "Fixed" \in DOMAIN x
    THEN JStr(Literal.fixed \o <<"[">> \o FormatU32(x.Fixed) \o <<"]">>)
    ELSE IF "Decimal" \in DOMAIN x
    THEN JStr(Literal.decimal \o <<"(">> \o FormatUInt(x.Decimal.precision)
              \o <<",">> \o FormatU32(x.Decimal.scale) \o <<")">>)
    ELSE JStr(VariantName(PrimitiveType, x))

\* PrimitiveType::serialize with the two numbers of a decimal exchanged
PrimitiveType_serialize_scale_first(x) ==
    IF "Fixed" \in DOMAIN x
    THEN JStr(Literal.fixed \o <<"[">> \o FormatU32(x.Fixed) \o <<"]">>)
    ELSE IF "Decimal" \in DOMAIN x
    THEN JStr(Literal.decimal \o <<"(">> \o FormatU32(x.Decimal.scale)
              \o <<",", " ">> \o FormatUInt(x.Decimal.precision) \o <<")">>)
    ELSE JStr(VariantName(PrimitiveType, x))

PrimitiveType_serialize(x) ==
    IF "Fixed" \in DOMAIN x
    THEN JStr(Literal.fixed \o <<"[">> \o FormatU32(x.Fixed) \o <<"]">>)
    ELSE IF "Decimal" \in DOMAIN x
    THEN JStr(Literal.decimal \o <<"(">> \o FormatUInt(x.Decimal.precision)
              \o <<",", " ">> \o FormatU32(x.Decimal.scale) \o <<")">>)
    ELSE JStr(VariantName(PrimitiveType, x))

\* Transform::serialize writing the width of a truncate under the word bucket
Transform_serialize_truncate_as_bucket(x) ==
    IF "Bucket" \in DOMAIN x
    THEN JStr(Literal.bucket \o <<"[">> \o FormatU32(x.Bucket) \o <<"]">>)
    ELSE IF "Truncate" \in DOMAIN x
    THEN JStr(Literal.bucket \o <<"[">> \o FormatU32(x.Truncate) \o <<"]">>)
    ELSE JStr(VariantName(Transform, x))

Transform_serialize(x) ==
    IF "Bucket" \in DOMAIN x
    THEN JStr(Literal.bucket \o <<"[">> \o FormatU32(x.Bucket) \o <<"]">>)
    ELSE IF "Truncate" \in DOMAIN x
    THEN JStr(Literal.truncate \o <<"[">> \o FormatU32(x.Truncate) \o <<"]">>)
    ELSE JStr(VariantName(Transform, x))

\* a derived struct that writes its tag after its fields
SerStructEntries_tag_last(def, x) ==
    With(Evaluated([i \in DOMAIN def.fields |->
                LET fd == def.fields[i] IN
                IF fd.flatten THEN Ser(fd.ty, x[fd.f]).obj
                ELSE <<Entry(fd.key, Ser(fd.ty, x[fd.f]))>>]),
         LAMBDA written : Concat(written))
    \o (IF def.tag = <<>> THEN <<>> ELSE <<Entry(def.tag[1], JStr(def.name))>>)

\* the entries a derived struct writes: its tag first, when it has one, with
\* the name of the struct, then every field, None as null; a flattened
\* field writes its own entries in place
SerStructEntries(def, x) ==
    (IF def.tag = <<>> THEN <<>> ELSE <<Entry(def.tag[1], JStr(def.name))>>)
    \o With(Evaluated([i \in DOMAIN def.fields |->
                LET fd == def.fields[i] IN
                IF fd.flatten THEN Ser(fd.ty, x[fd.f]).obj
                ELSE <<Entry(fd.key, Ser(fd.ty, x[fd.f]))>>]),
            LAMBDA written : Concat(written))

SerStruct(def, x) == JObj(SerStructEntries(def, x))

\* #[serde(untagged)]: the variant's own document
IcebergType_serialize(x) ==
    IF "Primitive" \in DOMAIN x THEN PrimitiveType_serialize(x.Primitive)
    ELSE IF "Struct" \in DOMAIN x THEN SerStruct(StructType, x.Struct)
    ELSE IF "List" \in DOMAIN x THEN SerStruct(ListType, x.List)
    ELSE SerStruct(MapType, x.Map)

SnapshotV1_serialize(x) == SerStruct(SnapshotV1, x)

\* #[serde(tag = "type")] enum RefType
RefType_serialize(x) ==
    IF "Branch" \in DOMAIN x
    THEN JObj(<<Entry("type", JStr(Literal.branch))>>
              \o SerStructEntries(RefType_Branch, x.Branch))
    ELSE JObj(<<Entry("type", JStr(Literal.tag))>>)

SerValue(ty, x) ==
    CASE ty.k = "i32" -> JInt(x)
      [] ty.k = "i64" -> x
      [] ty.k = "bool" -> JBool(x)
      [] ty.k = "String" -> JStr(x)
      [] ty.k = "Uuid" -> JStr(x)
      [] ty.k = "Option" -> IF IsNone(x) THEN JNull ELSE Ser(ty.of, x.Some)
      [] ty.k = "Vec" -> JArr(Evaluated([i \in DOMAIN x |-> Ser(ty.of, x[i])]))
      [] ty.k = "HashMap" ->
            With(IterationOrder(DOMAIN x),
                 LAMBDA order :
                    JObj(Evaluated([i \in DOMAIN order |->
                            Entry(order[i], Ser(ty.of, x[order[i]]))])))
      [] ty.k = "struct" -> SerStruct(StructOf(ty.name), x)
      [] ty.k = "enum" -> JStr(VariantName(VariantsOf(ty.name), x))
      [] ty.k = "IcebergType" -> IcebergType_serialize(x)
      [] ty.k = "PrimitiveType" -> PrimitiveType_serialize(x)
      [] ty.k = "Transform" -> Transform_serialize(x)
      [] ty.k = "SnapshotV1" -> SnapshotV1_serialize(x)
      [] ty.k = "RefType" -> RefType_serialize(x)

Ser(ty, x) == With(x, LAMBDA value : SerValue(ty, value))

-----------------------------------------------------------------------------
(* The table-metadata document codec (table_metadata.rs).                  *)

\* serde_json::Value::deserialize: the document as a Value, in which an
\* object holds each key once, with the last value the text gives it
RECURSIVE Value_deserialize(_)
Value_deserialize(deserializer) ==
    With(deserializer, LAMBDA v :
        IF IsArr(v)
        THEN JArr(Evaluated([i \in DOMAIN v.arr |-> Value_deserialize(v.arr[i])]))
        ELSE IF IsObj(v)
        THEN With({i \in DOMAIN v.obj :
                        \A j \in (i+1)..Len(v.obj) : v.obj[j].k # v.obj[i].k},
                  LAMBDA last :
                    JObj(Evaluated([n \in 1..Cardinality(last) |->
                        LET i == CHOOSE i \in last :
                                    Cardinality({j \in last : j < i}) = n - 1
                        IN  Entry(v.obj[i].k, Value_deserialize(v.obj[i].v))])))
        ELSE v)

\* Value::as_i64: the integer, when the value is one that fits i64
as_i64(v) == IF Kind(v) \in {"int", "long"} THEN Some(v) ELSE None

\* TableMetadata::deserialize with every version but 1 taken for 2
TableMetadata_deserialize_default_v2(deserializer) ==
    With(Value_deserialize(deserializer), LAMBDA value :
    IF ~(IsObj(value) /\ HasKey(value.obj, "format-version"))
    THEN Err(Error("Unable to find 'format-version' key in metadata"))
    ELSE LET format_version == as_i64(Get(value.obj, "format-version")) IN
         IF IsNone(format_version)
         THEN Err(Error("Invalid 'format-version' in metadata"))
         ELSE IF format_version.Some = JInt(1)
         THEN With(DeStruct(TableMetadataV1, value),
                   LAMBDA r :
                     IF IsOk(r) THEN Ok([V1 |-> r.Ok])
                     ELSE Err([kind |-> "Unable to deserialize version 1 metadata",
                               version |-> 1, error |-> r.Err]))
         ELSE With(DeStruct(TableMetadataV2, value),
                   LAMBDA r :
                     IF IsOk(r) THEN Ok([V2 |-> r.Ok])
                     ELSE Err([kind |-> "Unable to deserialize version 2 metadata",
                               version |-> 2, error |-> r.Err])))

\* TableMetadata::deserialize with the shape decoder's error passed on as
\* it is (no map_err)
TableMetadata_deserialize_unwrapped(deserializer) ==
    With(Value_deserialize(deserializer), LAMBDA value :
    IF ~(IsObj(value) /\ HasKey(value.obj, "format-version"))
    THEN Err(Error("Unable to find 'format-version' key in metadata"))
    ELSE LET format_version == as_i64(Get(value.obj, "format-version")) IN
         IF IsNone(format_version)
         THEN Err(Error("Invalid 'format-version' in metadata"))
         ELSE IF format_version.Some = JInt(2)
         THEN With(DeStruct(TableMetadataV2, value),
                   LAMBDA r : IF IsOk(r) THEN Ok([V2 |-> r.Ok]) ELSE r)
         ELSE IF format_version.Some = JInt(1)
         THEN With(DeStruct(TableMetadataV1, value),
                   LAMBDA r : IF IsOk(r) THEN Ok([V1 |-> r.Ok]) ELSE r)
         ELSE Err([kind |-> "Unsupported metadata format-version",
                   format_version |-> format_version.Some]))

TableMetadata_deserialize(deserializer) ==
    With(Value_deserialize(deserializer), LAMBDA value :
    IF ~(IsObj(value) /\ HasKey(value.obj, "format-version"))
    THEN Err(Error("Unable to find 'format-version' key in metadata"))
    ELSE LET format_version == as_i64(Get(value.obj, "format-version")) IN
         IF IsNone(format_version)
         THEN Err(Error("Invalid 'format-version' in metadata"))
         ELSE IF format_version.Some = JInt(2)
         THEN With(DeStruct(TableMetadataV2, value),
                   LAMBDA r :
                     IF IsOk(r) THEN Ok([V2 |-> r.Ok])
                     ELSE Err([kind |-> "Unable to deserialize version 2 metadata",
                               version |-> 2, error |-> r.Err]))
         ELSE IF format_version.Some = JInt(1)
         THEN With(DeStruct(TableMetadataV1, value),
                   LAMBDA r :
                     IF IsOk(r) THEN Ok([V1 |-> r.Ok])
                     ELSE Err([kind |-> "Unable to deserialize version 1 metadata",
                               version |-> 1, error |-> r.Err]))
         ELSE Err([kind |-> "Unsupported metadata format-version",
                   format_version |-> format_version.Some]))

\* VersionedTableMetadata: format_version, then the flattened body
TableMetadata_serialize(self) ==
    IF "V2" \in DOMAIN self
    THEN JObj(<<Entry("format-version", JInt(2))>>
              \o SerStructEntries(TableMetadataV2, self.V2))
    ELSE JObj(<<Entry("format-version", JInt(1))>>
              \o SerStructEntries(TableMetadataV1, self.V1))

-----------------------------------------------------------------------------
(* The documents and values the runs are started with.                     *)

Nil == [nil |-> TRUE]
Absent == [absent |-> TRUE]

SchemaDoc(withId) ==
    JObj((IF withId THEN <<Entry("schema-id", JInt(0))>> ELSE <<>>) \o <<
        Entry("type", JStr(Literal.struct)),
        Entry("fields", JArr(<<
            JObj(<<Entry("id", JInt(1)), Entry("name", JStr(<<"a">>)),
                   Entry("required", JBool(FALSE)), Entry("type", JStr(<<"i", "n", "t">>)),
                   Entry("doc", JStr(<<"d">>))>>),
            JObj(<<Entry("id", JInt(2)), Entry("name", JStr(<<"b">>)),
                   Entry("required", JBool(TRUE)),
                   Entry("type", JObj(<<
                        Entry("type", JStr(Literal.list)),
                        Entry("element-id", JInt(3)),
                        Entry("element-required", JBool(TRUE)),
                        Entry("element", JStr(Literal.decimal \o
                                <<"(", "9", ",", "2", ")">>))>>))>>) >>)) >>)

PartitionFieldDoc ==
    JObj(<<Entry("name", JStr(<<"a">>)),
           Entry("transform", JStr(Literal.bucket \o <<"[", "1", "6", "]">>)),
           Entry("source-id", JInt(1)), Entry("field-id", JInt(1000))>>)

PartitionSpecsDoc ==
    JArr(<<JObj(<<Entry("spec-id", JInt(0)),
                  Entry("fields", JArr(<<PartitionFieldDoc>>))>>)>>)

SortOrdersDoc ==
    JArr(<<JObj(<<Entry("order-id", JInt(1)),
                  Entry("fields", JArr(<<JObj(<<
                      Entry("transform", JStr(Transform[1].name)),
                      Entry("source-id", JInt(1)),
                      Entry("direction", JStr(Direction[1].name)),
                      Entry("null-order", JStr(NullOrder[2].name))>>)>>))>>)>>)

SummaryDoc ==
    JObj(<<Entry("operation", JStr(Operation[1].name)),
           Entry("added-records", JStr(<<"2">>))>>)

SnapshotV2Doc ==
    JObj(<<Entry("sequence-number", JInt(1)), Entry("snapshot-id", JLong(2)),
           Entry("timestamp-ms", JLong(1)), Entry("summary", SummaryDoc),
           Entry("manifest-list", JStr(<<"m">>)), Entry("schema-id", JInt(0))>>)

\* a V1 snapshot with manifest-list and one with manifests, neither with
\* a parent
SnapshotsV1Doc ==
    JArr(<<JObj(<<Entry("snapshot-id", JLong(2)), Entry("timestamp-ms", JLong(1)),
                  Entry("summary", SummaryDoc),
                  Entry("manifest-list", JStr(<<"m">>)),
                  Entry("schema-id", JInt(0))>>),
           JObj(<<Entry("snapshot-id", JLong(3)), Entry("timestamp-ms", JLong(1)),
                  Entry("manifests", JArr(<<JStr(<<"m">>)>>))>>)>>)

\* the optional entries the two versions share
CommonOptionalEntries ==
    << Entry("properties", JObj(<<Entry("owner", JStr(<<"r">>))>>)),
       Entry("current-snapshot-id", JLong(2)),
       Entry("snapshot-log", JArr(<<JObj(<<Entry("timestamp-ms", JLong(1)),
                                           Entry("snapshot-id", JLong(2))>>)>>)),
       Entry("metadata-log", JArr(<<JObj(<<Entry("timestamp-ms", JLong(1)),
                                           Entry("metadata-file", JStr(<<"f">>))>>)>>)),
       Entry("statistics", JObj(<<Entry("snapshot-id", JLong(2))>>)) >>

RefsDoc ==
    JObj(<<Entry("main", JObj(<<Entry("snapshot-id", JLong(2)),
                                Entry("type", JStr(Literal.branch))>>)),
           Entry("v1", JObj(<<Entry("snapshot-id", JLong(2)),
                              Entry("type", JStr(Literal.tag)),
                              Entry("max-ref-age-ms", JLong(1))>>))>>)

\* the V1 document with only the keys TableMetadataV1 requires
MinimalV1 ==
    JObj(<<
        Entry("format-version", JInt(1)),
        Entry("location", JStr(<<"s", "3">>)),
        Entry("last-updated-ms", JLong(1)),
        Entry("last-column-id", JInt(2)),
        Entry("schema", SchemaDoc(FALSE)),
        Entry("partition-spec", JArr(<<PartitionFieldDoc>>)),
        Entry("partition-specs", PartitionSpecsDoc),
        Entry("default-sort-order-id", JInt(0)) >>)

\* a V1 document with every key of the V1 table
FullV1 ==
    JObj(MinimalV1.obj \o <<
        Entry("table-uuid", JStr(<<"5", "F", "a">>)),
        Entry("schemas", JArr(<<SchemaDoc(TRUE)>>)),
        Entry("current-schema-id", JInt(0)),
        Entry("default-spec-id", JInt(0)),
        Entry("last-partition-id", JInt(1000)),
        Entry("snapshots", SnapshotsV1Doc),
        Entry("sort-orders", SortOrdersDoc) >> \o CommonOptionalEntries)

\* the V2 document with only the keys TableMetadataV2 requires
MinimalV2 ==
    JObj(<<
        Entry("format-version", JInt(2)),
        Entry("table-uuid", JStr(<<"1", "c", "b">>)),
        Entry("location", JStr(<<"s", "3">>)),
        Entry("last-sequence-number", JInt(1)),
        Entry("last-updated-ms", JLong(1)),
        Entry("last-column-id", JInt(2)),
        Entry("schemas", JArr(<<SchemaDoc(TRUE)>>)),
        Entry("current-schema-id", JInt(0)),
        Entry("partition-specs", PartitionSpecsDoc),
        Entry("default-spec-id", JInt(0)),
        Entry("last-partition-id", JInt(1000)),
        Entry("sort-orders", SortOrdersDoc),
        Entry("default-sort-order-id", JInt(0)) >>)

FullV2 ==
    JObj(MinimalV2.obj \o <<
        Entry("snapshots", JArr(<<SnapshotV2Doc>>)),
        Entry("refs", RefsDoc) >> \o CommonOptionalEntries)

\* a document whose body no shape decoder takes
Malformed ==
    JObj(<<Entry("format-version", JInt(2)), Entry("location", JInt(7))>>)


\* how many keys of a base document a run's document changes
MaxEdits == 1

\* a value no decoder of the key takes
BadValue(key) ==
    IF key \in {"table-uuid", "location"} THEN JInt(7) ELSE JStr(<<"x", "y">>)

\* a value the key has in a well-formed document
GoodValue(key) ==
    IF HasKey(FullV2.obj, key) THEN Get(FullV2.obj, key) ELSE Get(FullV1.obj, key)

\* one key of the body removed, set to null, to a value of the wrong type or
\* to a well-formed one; or format-version removed or set to another value
SingleEdits ==
    UNION {{[key |-> key, to |-> to] :
                to \in {Absent, JNull, BadValue(key), GoodValue(key)}} :
           key \in (Keys(FullV1.obj) \cup Keys(FullV2.obj)) \ {"format-version"}}
    \cup {[key |-> "format-version", to |-> to] :
                to \in {Absent, JInt(0), JInt(1), JInt(2), JInt(3), JInt(-1),
                        JLong(1), JBig, JFloat, JStr(<<"2">>), JNull, JBool(TRUE)}}

RECURSIVE ApplyEdits(_, _)
ApplyEdits(entries, edits) ==
    IF edits = <<>> THEN entries
    ELSE ApplyEdits(IF Head(edits).to = Absent
                    THEN Without(entries, {Head(edits).key})
                    ELSE SetKey(entries, Head(edits).key, Head(edits).to),
                    Tail(edits))

\* v with the value at a path set to another; a step of a path is a key and
\* a position in the array under that key (0 where the key holds no array)
RECURSIVE SetAt(_, _, _)
SetAt(v, path, to) ==
    IF path = <<>> THEN to
    ELSE LET key == Head(path)[1]
             pos == Head(path)[2]
             old == IF HasKey(v.obj, key) THEN Get(v.obj, key) ELSE Absent
         IN  JObj(SetKey(v.obj, key,
                IF pos = 0 THEN SetAt(old, Tail(path), to)
                ELSE JArr([old.arr EXCEPT ![pos] = SetAt(old.arr[pos], Tail(path), to)])))

\* one element inside a full document made invalid: a transform inside a
\* partition spec or a sort order, a primitive inside a nested type, an
\* operation inside a summary, a V1 snapshot given both manifest keys
NestedFaults ==
    LET no == JStr(<<"x", "y">>)
    IN  {[base |-> base, path |-> path, to |-> no] :
            base \in {FullV1, FullV2},
            path \in {<< <<"partition-specs", 1>>, <<"fields", 1>>, <<"transform", 0>> >>,
                      << <<"sort-orders", 1>>, <<"fields", 1>>, <<"transform", 0>> >>,
                      << <<"sort-orders", 1>>, <<"fields", 1>>, <<"direction", 0>> >>,
                      << <<"snapshots", 1>>, <<"summary", 0>>, <<"operation", 0>> >>}}
        \cup {[base |-> FullV2, path |-> path, to |-> no] :
            path \in {<< <<"schemas", 1>>, <<"fields", 2>>, <<"type", 0>>, <<"element", 0>> >>,
                      << <<"schemas", 1>>, <<"fields", 1>>, <<"type", 0>> >>,
                      << <<"refs", 0>>, <<"main", 0>>, <<"type", 0>> >>}}
        \cup {[base |-> FullV1, path |-> path, to |-> no] :
            path \in {<< <<"schema", 0>>, <<"fields", 2>>, <<"type", 0>>, <<"element", 0>> >>,
                      << <<"partition-spec", 1>>, <<"transform", 0>> >>}}
        \cup {[base |-> FullV1,
                path |-> << <<"snapshots", 1>>, <<"manifests", 0>> >>,
                to |-> JArr(<<JStr(<<"m">>)>>)]}

MetaDocs ==
    {JObj(ApplyEdits(base.obj, edits)) :
        base \in {MinimalV1, FullV1, MinimalV2, FullV2, Malformed},
        edits \in UNION {[1..n -> SingleEdits] : n \in 0..MaxEdits}}
    \cup {SetAt(f.base, f.path, f.to) : f \in NestedFaults}

\* the values a caller can build: what a document decodes to, with the
\* public format_version field set to any number
MetaValues ==
    {[V1 |-> [DeStruct(TableMetadataV1, FullV1).Ok
                EXCEPT !["format_version"] = n]] : n \in {1, 2, 7}}
    \cup
    {[V2 |-> [DeStruct(TableMetadataV2, FullV2).Ok
                EXCEPT !["format_version"] = n]] : n \in {1, 2, 7}}

-----------------------------------------------------------------------------
(* Schema types: the values a caller can build and the type nodes a        *)
(* document can hold.                                                      *)

\* how deep the composites of a type are nested
MaxDepth == 2

PrimitiveTypes ==
    {[Primitive |-> UnitValue(PrimitiveType[i].v)] : i \in DOMAIN PrimitiveType}
    \cup {[Primitive |-> [Fixed |-> U32(n)]] : n \in {1, 16, 400}}
    \cup {[Primitive |-> [Decimal |-> [precision |-> d[1], scale |-> U32(d[2])]]] :
                d \in {<<0, 0>>, <<1, 20>>, <<38, 2>>}}

FieldA(t) ==
    [id |-> 1, name |-> <<"a">>, required |-> TRUE, field_type |-> t,
     doc |-> None, initial_default |-> None, write_default |-> None]
FieldB ==
    [id |-> 2, name |-> <<"b">>, required |-> FALSE, field_type |-> [Primitive |-> UnitValue("Int")],
     doc |-> Some(<<"d">>), initial_default |-> Some(<<"0">>),
     write_default |-> None]

\* the composites that hold the type t
Wrap(t) ==
    { [List |-> [element_id |-> 3, element_required |-> FALSE, element |-> t]],
      [Map |-> [key_id |-> 4, key |-> [Primitive |-> UnitValue("String")], value_id |-> 5,
                value_required |-> TRUE, value |-> t]],
      [Map |-> [key_id |-> 4, key |-> t, value_id |-> 5,
                value_required |-> FALSE, value |-> [Primitive |-> UnitValue("Int")]]],
      [Struct |-> [fields |-> <<FieldA(t)>>]],
      [Struct |-> [fields |-> <<FieldA(t), FieldB>>]],
      [Struct |-> [fields |-> <<FieldB, FieldA(t)>>]] }

RECURSIVE TypesTo(_)
TypesTo(depth) ==
    IF depth = 0 THEN PrimitiveTypes
    ELSE LET below == TypesTo(depth - 1) IN
         below \cup {[Struct |-> [fields |-> <<>>]]}
               \cup UNION {Wrap(t) : t \in below}

TypeValues == TypesTo(MaxDepth)

FieldDoc(node) ==
    JObj(<<Entry("id", JInt(1)), Entry("name", JStr(<<"a">>)),
           Entry("required", JBool(TRUE)), Entry("type", node)>>)

\* the entries a struct, a list and a map node hold beside their tag
CompositeEntries ==
    [struct |-> <<Entry("fields", JArr(<<FieldDoc(JStr(<<"i", "n", "t">>))>>))>>,
     list |-> <<Entry("element-id", JInt(3)),
                Entry("element-required", JBool(TRUE)),
                Entry("element", JStr(<<"i", "n", "t">>))>>,
     map |-> <<Entry("key-id", JInt(4)), Entry("key", JStr(<<"i", "n", "t">>)),
               Entry("value-id", JInt(5)), Entry("value-required", JBool(TRUE)),
               Entry("value", JStr(<<"i", "n", "t">>))>>]

\* the entries an object node holds beside its tag: those of any of the
\* composites together, or those of one composite less one
NodeBodies ==
    {(IF s THEN CompositeEntries.struct ELSE <<>>)
        \o (IF l THEN CompositeEntries.list ELSE <<>>)
        \o (IF m THEN CompositeEntries.map ELSE <<>>) :
            s \in BOOLEAN, l \in BOOLEAN, m \in BOOLEAN}
    \cup UNION {{Without(CompositeEntries[c], {key}) :
                    key \in Keys(CompositeEntries[c])} :
                 c \in DOMAIN CompositeEntries}
    \cup {<<Entry("fields", JArr(<<>>))>>}

ObjectNodes ==
    {JObj((IF tag = Absent THEN <<>> ELSE <<Entry("type", tag)>>) \o body) :
        tag \in {Absent, JStr(Literal.struct), JStr(Literal.list), JStr(Literal.map),
                 JStr(<<"s", "e", "t">>), JStr(<<"i", "n", "t">>), JInt(1), JNull},
        body \in NodeBodies}

StringNodes ==
    {JStr(PrimitiveType[i].name) : i \in DOMAIN PrimitiveType}
    \cup {JStr(Literal.fixed \o <<"[", "1", "6", "]">>), JStr(Literal.fixed \o <<"[", "]">>),
          JStr(Literal.fixed), JStr(Literal.decimal),
          JStr(Literal.decimal \o <<"(", "9", ",", "2", ")">>),
          JStr(Literal.decimal \o <<"(", "3", "9", ",", " ", "2", ")">>),
          JStr(<<"s", "e", "t">>)}

RECURSIVE NodesTo(_)
NodesTo(depth) ==
    IF depth = 0 THEN ObjectNodes \cup StringNodes \cup {JInt(1), JNull}
    ELSE LET below == NodesTo(depth - 1) IN
         below
         \cup {JObj(<<Entry("type", JStr(Literal.list)), Entry("element-id", JInt(3)),
                      Entry("element-required", JBool(TRUE)),
                      Entry("element", node)>>) : node \in below}
         \cup {JObj(<<Entry("type", JStr(Literal.struct)),
                      Entry("fields", JArr(<<FieldDoc(node)>>))>>) : node \in below}

TypeDocs == NodesTo(MaxDepth)

-----------------------------------------------------------------------------
(* The runs of the table-metadata codec: a document is decoded, the model  *)
(* is emitted, the emitted document is decoded again.                      *)

MetaInit ==
    /\ job = "TableMetadata"
    /\ emitted = Nil
    /\ redecoded = Nil
    /\ statics = Nil
    /\ \/ /\ input \in MetaDocs
          /\ decoded = Nil
          /\ pc = "decode"
       \/ /\ input = Nil
          /\ decoded \in {Ok(v) : v \in MetaValues}
          /\ pc = "encode"

\* serde_json::from_str::<TableMetadata>(input)
MetaDecode ==
    /\ job = "TableMetadata" /\ pc = "decode"
    /\ decoded' = TableMetadata_deserialize(input)
    /\ pc' = IF IsOk(decoded') THEN "encode" ELSE "done"
    /\ UNCHANGED <<statics, job, input, emitted, redecoded>>

\* serde_json::to_string(&metadata)
MetaEncode ==
    /\ job = "TableMetadata" /\ pc = "encode"
    /\ emitted' = TableMetadata_serialize(decoded.Ok)
    /\ pc' = "redecode"
    /\ UNCHANGED <<statics, job, input, decoded, redecoded>>

\* serde_json::from_str::<TableMetadata>(&emitted)
MetaRedecode ==
    /\ job = "TableMetadata" /\ pc = "redecode"
    /\ redecoded' = TableMetadata_deserialize(emitted)
    /\ pc' = "done"
    /\ UNCHANGED <<statics, job, input, decoded, emitted>>

MetaNext == MetaDecode \/ MetaEncode \/ MetaRedecode

Spec == MetaInit /\ [][MetaNext]_vars

-----------------------------------------------------------------------------
(* The runs of the schema type codec: a type node is decoded, or a type    *)
(* is built in memory; the type is emitted and the emitted node decoded.   *)

TypeInit ==
    /\ job = "IcebergType"
    /\ emitted = Nil
    /\ redecoded = Nil
    /\ statics = Nil
    /\ \/ /\ input \in TypeDocs
          /\ decoded = Nil
          /\ pc = "decode"
       \/ /\ input = Nil
          /\ decoded \in {Ok(t) : t \in TypeValues}
          /\ pc = "encode"

\* serde_json::from_str::<IcebergType>(input)
TypeDecode ==
    /\ job = "IcebergType" /\ pc = "decode"
    /\ decoded' = De(IcebergTypeT, input)
    /\ pc' = IF IsOk(decoded') THEN "encode" ELSE "done"
    /\ UNCHANGED <<statics, job, input, emitted, redecoded>>

\* serde_json::to_string(&iceberg_type)
TypeEncode ==
    /\ job = "IcebergType" /\ pc = "encode"
    /\ emitted' = Ser(IcebergTypeT, decoded.Ok)
    /\ pc' = "redecode"
    /\ UNCHANGED <<statics, job, input, decoded, redecoded>>

\* serde_json::from_str::<IcebergType>(&emitted)
TypeRedecode ==
    /\ job = "IcebergType" /\ pc = "redecode"
    /\ redecoded' = De(IcebergTypeT, emitted)
    /\ pc' = "done"
    /\ UNCHANGED <<statics, job, input, decoded, emitted>>

TypeNext == TypeDecode \/ TypeEncode \/ TypeRedecode

SpecType == TypeInit /\ [][TypeNext]_vars

-----------------------------------------------------------------------------
(* The codecs of the parts of a document, each called on its own as the    *)
(* tests of the crate call them: a run decodes a document, emits the       *)
(* value and decodes what was emitted, or starts from a value built in     *)
(* memory.                                                                 *)

\* the type each run of a part codec is about
CodecJobs ==
    [PrimitiveType |-> PrimitiveTypeT, Transform |-> TransformT,
     Direction |-> UnitEnum("Direction"), NullOrder |-> UnitEnum("NullOrder"),
     Operation |-> UnitEnum("Operation"),
     PartitionSpec |-> Struct("PartitionSpec"),
     SnapshotV1 |-> SnapshotV1T, Summary |-> Struct("Summary"),
     SnapshotRefV2 |-> Struct("SnapshotRefV2")]

\* how many spaces the documents put on either side of a decimal's comma
MaxSpaces == 2

\* the documents a run of the job starts from: every name of a closed
\* textual union in lower case, capitalised and in upper case, the strings
\* that start like a type or a transform with a parameter, spelled well and
\* badly, partition specs with their transforms in a given order, V1
\* snapshots with each of manifest-list and manifests missing, null or
\* set, summaries with and without their operation, and snapshot refs with
\* every kind of type entry
CodecDocs(codec) ==
    LET Numerals ==
            [length |-> {<<"0">>, <<"1">>, <<"1", "6">>, <<"0", "0", "7">>,
                         <<"2", "1", "4", "7", "4", "8", "3", "6", "4", "8">>,
                         <<"4", "2", "9", "4", "9", "6", "7", "2", "9", "5">>,
                         <<"4", "2", "9", "4", "9", "6", "7", "2", "9", "6">>,
                         <<"9", "9", "9", "9", "9", "9", "9", "9", "9", "9", "9">>,
                         <<>>, <<"a">>, <<"a", "1">>, <<"1", "a">>, <<" ", "1">>,
                         <<"1", " ">>, <<"-", "1">>, <<"U+0663">>, <<"1", ",", "2">>},
             precision |-> {<<"0">>, <<"1">>, <<"3", "0">>, <<"0", "3", "0">>, <<"3", "8">>,
                            <<"3", "9">>, <<"4", "0">>, <<"2", "5", "5">>, <<"2", "5", "6">>,
                            <<"2", "9", "4">>,
                            <<"4", "2", "9", "4", "9", "6", "7", "2", "9", "6">>,
                            <<>>, <<"a">>, <<" ", "3", "0">>, <<"3", " ", "0">>},
             scale |-> {<<"0">>, <<"2">>, <<"2", "0">>, <<"0", "2", "0">>,
                        <<"4", "2", "9", "4", "9", "6", "7", "2", "9", "5">>,
                        <<"4", "2", "9", "4", "9", "6", "7", "2", "9", "6">>,
                        <<>>, <<"2", "0", " ">>, <<"2", " ", "0">>}]
        ParameterStrings ==
            LET heads == {Literal.fixed, Literal.decimal, Literal.bucket, Literal.truncate}
                brackets == {<<"[", "]">>, <<"(", ")">>, <<"[", ")">>, <<"", "">>}
                Spaces(n) == [i \in 1..n |-> " "]
                Close(b, s) == IF b[2] = "" THEN s ELSE s \o <<b[2]>>
                Open(h, b) == IF b[1] = "" THEN h ELSE h \o <<b[1]>>
            IN  {Close(b, Open(h, b) \o n) :
                    h \in heads, b \in brackets, n \in Numerals.length}
                \cup {Close(b, Open(Literal.decimal, b) \o p \o Spaces(before) \o <<",">> \o Spaces(after) \o s) :
                        b \in {<<"(", ")">>, <<"[", "]">>},
                        p \in Numerals.precision, s \in Numerals.scale,
                        before \in 0..MaxSpaces, after \in 0..MaxSpaces}
                \cup {h \o <<" ">> \o b \o <<"1">> \o c \o t :
                        h \in {Literal.fixed, Literal.bucket, Literal.truncate},
                        b \in {<<"[">>}, c \in {<<"]">>}, t \in {<<>>, <<" ">>, <<"x">>}}
                \cup {Literal.decimal \o a \o <<"(", "1", ",", "2", ")">> \o t :
                        a \in {<<>>, <<" ">>}, t \in {<<>>, <<" ">>, <<"x">>}}
                \cup {Literal.decimal \o <<"(", "1", "\t", ",", "\t", "2", ")">>}
        BareStrings ==
            LET alphabet ==
                    [lower |-> <<"a", "b", "c", "d", "e", "f", "g", "h", "i", "j", "k", "l", "m",
                                 "n", "o", "p", "q", "r", "s", "t", "u", "v", "w", "x", "y", "z">>,
                     upper |-> <<"A", "B", "C", "D", "E", "F", "G", "H", "I", "J", "K", "L", "M",
                                 "N", "O", "P", "Q", "R", "S", "T", "U", "V", "W", "X", "Y", "Z">>]
                Upper(c) ==
                    IF \E i \in 1..26 : alphabet.lower[i] = c
                    THEN alphabet.upper[CHOOSE i \in 1..26 : alphabet.lower[i] = c]
                    ELSE c
                names == UNION {{table[i].name : i \in DOMAIN table} :
                                table \in {PrimitiveType, Transform, Direction,
                                           NullOrder, Operation}}
                         \cup {Literal.fixed, Literal.decimal, Literal.bucket, Literal.truncate}
            IN  names
                \cup {[i \in DOMAIN n |-> IF i = 1 THEN Upper(n[i]) ELSE n[i]] : n \in names}
                \cup {[i \in DOMAIN n |-> Upper(n[i])] : n \in names}
                \cup {n \o <<" ">> : n \in names} \cup {<<" ">> \o n : n \in names}
                \cup {<<>>, <<"d", "s", "c">>, <<"n", "u", "l", "l", "s">>,
                      <<"n", "u", "l", "l", "s", "_", "f", "i", "r", "s", "t">>,
                      <<"i", "n", "t", "e", "g", "e", "r">>}
        PartitionSpecDoc(transforms) ==
            JObj(<<Entry("spec-id", JInt(1)),
                   Entry("fields", JArr([i \in DOMAIN transforms |->
                        JObj(<<Entry("source-id", JInt(i + 3)),
                               Entry("field-id", JInt(999 + i)),
                               Entry("name", JStr(<<"t", "s">>)),
                               Entry("transform", JStr(transforms[i]))>>)]))>>)
    IN
    CASE codec \in {"PrimitiveType", "Transform"} ->
            {JStr(s) : s \in BareStrings \cup ParameterStrings}
            \cup {JNull, JInt(16), JArr(<<JStr(Literal.fixed)>>)}
      [] codec \in {"Direction", "NullOrder", "Operation"} ->
            {JStr(s) : s \in BareStrings} \cup {JNull, JInt(0)}
      [] codec = "PartitionSpec" ->
            {PartitionSpecDoc(ts) :
                ts \in {<<>>, <<Transform[3].name>>,
                        <<Transform[2].name, Literal.bucket \o <<"[", "1", "6", "]">>>>,
                        <<Literal.bucket \o <<"[", "1", "6", "]">>, Transform[2].name>>,
                        <<Literal.truncate \o <<"[", "4", "]">>, Transform[1].name,
                          Transform[5].name>>,
                        <<Literal.bucket \o <<"[", "4", "2", "9", "4", "9", "6", "7", "2", "9", "6", "]">>>>,
                        <<Transform[4].name, <<"D", "a", "y">>>>}}
      [] codec = "SnapshotV1" ->
            {JObj(<<Entry("snapshot-id", JInt(3)), Entry("timestamp-ms", JInt(1))>>
                  \o list \o manifests \o summary) :
                list \in {<<>>, <<Entry("manifest-list", JNull)>>,
                          <<Entry("manifest-list", JStr(<<"m">>))>>},
                manifests \in {<<>>, <<Entry("manifests", JNull)>>,
                               <<Entry("manifests", JArr(<<>>))>>,
                               <<Entry("manifests", JArr(<<JStr(<<"m">>)>>))>>},
                summary \in {<<>>, <<Entry("summary", SummaryDoc)>>}}
      [] codec = "Summary" ->
            LET operations ==
                    {<<>>, <<Entry("operation", JNull)>>, <<Entry("operation", JInt(1))>>,
                     <<Entry("operation", JStr(<<"A", "p", "p", "e", "n", "d">>))>>}
                    \cup {<<Entry("operation", JStr(Operation[i].name))>> :
                            i \in DOMAIN Operation}
                others ==
                    {<<>>, <<Entry("added-records", JStr(<<"2">>))>>,
                     <<Entry("added-records", JStr(<<"2">>)),
                       Entry("total-records", JStr(<<"5">>))>>,
                     <<Entry("total-records", JStr(<<"5">>)),
                       Entry("added-records", JStr(<<"2">>))>>,
                     <<Entry("added-records", JStr(<<"2">>)),
                       Entry("added-records", JStr(<<"3">>))>>,
                     <<Entry("added-records", JInt(2))>>,
                     <<Entry("added-records", JStr(<<"2">>)),
                       Entry("operation", JStr(Operation[4].name))>>}
            IN  {JObj(o \o r) : o \in operations, r \in others}
                \cup {JObj(r \o o) : o \in operations, r \in others}
                \cup {JNull, JStr(Operation[1].name)}
      [] codec = "SnapshotRefV2" ->
            {JObj(<<Entry("snapshot-id", JInt(1))>> \o min \o type \o age \o ref) :
                type \in {<<>>}
                    \cup {<<Entry("type", t)>> :
                            t \in {JStr(Literal.branch), JStr(Literal.tag),
                                   JStr(<<"B", "r", "a", "n", "c", "h">>),
                                   JStr(<<"T", "A", "G">>), JStr(<<"m", "a", "i", "n">>),
                                   JStr(<<>>), JInt(0), JInt(1), JInt(2), JNull,
                                   JBool(TRUE)}}
                    \cup {<<Entry("type", JStr(Literal.tag)),
                             Entry("type", JStr(Literal.branch))>>},
                min \in {<<>>, <<Entry("min-snapshots-to-keep", JInt(2345))>>,
                         <<Entry("min-snapshots-to-keep", JNull)>>,
                         <<Entry("min-snapshots-to-keep", JStr(<<"2">>))>>},
                age \in {<<>>, <<Entry("max-snapshot-age-ms", JInt(7))>>},
                ref \in {<<>>, <<Entry("max-ref-age-ms", JInt(9))>>}}

\* the values a run of the job builds in memory
CodecValues(codec) ==
    LET lengths == {U32(0), U32(1), U32(16), U32(65536), U32(400000),
                    [hi |-> 32768, lo |-> 0], [hi |-> 65535, lo |-> 65535]}
        units(table) == {UnitValue(table[i].v) : i \in DOMAIN table}
        transforms == units(Transform) \cup {[Bucket |-> n] : n \in lengths}
                        \cup {[Truncate |-> n] : n \in lengths}
        field(i, t) == [source_id |-> i + 3, field_id |-> 999 + i,
                        name |-> <<"t", "s">>, transform |-> t]
    IN  CASE codec = "PrimitiveType" ->
                units(PrimitiveType) \cup {[Fixed |-> n] : n \in lengths}
                \cup {[Decimal |-> [precision |-> p, scale |-> s]] :
                        p \in {0, 1, 30, 38, 39, 255}, s \in lengths}
          [] codec = "Transform" -> transforms
          [] codec = "Direction" -> units(Direction)
          [] codec = "NullOrder" -> units(NullOrder)
          [] codec = "Operation" -> units(Operation)
          [] codec = "PartitionSpec" ->
                {[spec_id |-> 1, fields |-> <<>>]}
                \cup {[spec_id |-> 1, fields |-> <<field(1, t)>>] : t \in transforms}
                \cup {[spec_id |-> 1, fields |-> <<field(1, t), field(2, u)>>] :
                        t \in transforms, u \in {[Bucket |-> U32(16)], UnitValue("Year")}}
          [] codec = "SnapshotV1" ->
                {[snapshot_id |-> JInt(3), parent_snapshot_id |-> None,
                  timestamp_ms |-> JInt(1), manifest_list |-> list,
                  manifests |-> manifests, summary |-> summary,
                  schema_id |-> None] :
                    list \in {None, Some(<<"m">>)},
                    manifests \in {None, Some(<<>>), Some(<< <<"m">> >>)},
                    summary \in {None, Some([operation |-> UnitValue("Append"),
                                             rest |-> <<>>])}}
          [] codec = "Summary" ->
                {[operation |-> o, rest |-> r] :
                    o \in units(Operation),
                    r \in UNION {[keys -> {<<"2">>, <<>>}] :
                                    keys \in SUBSET {"added-records", "total-records",
                                                     "operation"}}}
          [] codec = "SnapshotRefV2" ->
                {[snapshot_id |-> JInt(1), ref_type |-> r, max_ref_age_ms |-> a] :
                    r \in {[Tag |-> TRUE]}
                            \cup {[Branch |-> [min_snapshots_to_keep |-> k,
                                               max_snapshot_age_ms |-> m]] :
                                    k \in {None, Some(2345)}, m \in {None, Some(JInt(7))}},
                    a \in {None, Some(JInt(9))}}

CodecInit ==
    /\ job \in DOMAIN CodecJobs
    /\ emitted = Nil
    /\ redecoded = Nil
    /\ statics = Nil
    /\ \/ /\ input \in CodecDocs(job)
          /\ decoded = Nil
          /\ pc = "decode"
       \/ /\ input = Nil
          /\ decoded \in {Ok(x) : x \in CodecValues(job)}
          /\ pc = "encode"

\* serde_json::from_str::<T>(input)
CodecDecode ==
    /\ job \in DOMAIN CodecJobs /\ pc = "decode"
    /\ decoded' = De(CodecJobs[job], input)
    /\ pc' = IF IsOk(decoded') THEN "encode" ELSE "done"
    /\ UNCHANGED <<statics, job, input, emitted, redecoded>>

\* serde_json::to_string(&value)
CodecEncode ==
    /\ job \in DOMAIN CodecJobs /\ pc = "encode"
    /\ emitted' = Ser(CodecJobs[job], decoded.Ok)
    /\ pc' = "redecode"
    /\ UNCHANGED <<statics, job, input, decoded, redecoded>>

\* serde_json::from_str::<T>(&emitted)
CodecRedecode ==
    /\ job \in DOMAIN CodecJobs /\ pc = "redecode"
    /\ redecoded' = De(CodecJobs[job], emitted)
    /\ pc' = "done"
    /\ UNCHANGED <<statics, job, input, decoded, emitted>>

CodecNext == CodecDecode \/ CodecEncode \/ CodecRedecode

SpecCodec == CodecInit /\ [][CodecNext]_vars

-----------------------------------------------------------------------------
(* The manifest list.  A record of a manifest-list file reaches the code   *)
(* as an apache_avro Value: Avro(kind, value), a Record holding its fields *)
(* as entries in the order of the writer's schema, a Union holding the     *)
(* index of its branch and the value of it.                                *)

Avro(kind, value) == kind :> value
AvroKind(value) == CHOOSE kind \in DOMAIN value : TRUE
AvroValue(value) == value[AvroKind(value)]

\* a variant that lets a field named a second time pass
duplicate_field_ignored(def, k) == Ok(Nil)

\* what the derived visitor of a struct does with an entry that names, by
\* its own name or an alias, a field an earlier entry has filled
duplicate_field(def, k) == Err(ErrorAt("duplicate field", def.fields[k].key))

\* apache_avro::from_value::<T>(&value)
RECURSIVE from_value(_, _)
from_value(ty, value) ==
    LET \* deserialize_any looks through a union
        any == IF AvroKind(value) = "Union" THEN AvroValue(value).value ELSE value
        invalid == Err(Error("invalid type"))
        \* the derived visit_map of a struct over the fields of a record
        record(def, entries) ==
            LET slot(i) ==
                    IF \E k \in DOMAIN def.fields :
                            entries[i].k \in {def.fields[k].key} \cup def.fields[k].alias
                    THEN CHOOSE k \in DOMAIN def.fields :
                            entries[i].k \in {def.fields[k].key} \cup def.fields[k].alias
                    ELSE 0
                given(k) == {i \in DOMAIN entries : slot(i) = k}
            IN  With(Evaluated([i \in DOMAIN entries |->
                        IF slot(i) = 0 THEN Ok(Nil)
                        ELSE IF \E j \in 1..(i-1) : slot(j) = slot(i)
                        THEN duplicate_field(def, slot(i))
                        ELSE from_value(def.fields[slot(i)].ty, entries[i].v)]),
                     LAMBDA read :
                        IF ~AllOk(read) THEN FirstError(read)
                        ELSE With(Evaluated([k \in DOMAIN def.fields |->
                                IF given(k) # {}
                                THEN read[CHOOSE i \in given(k) : \A j \in given(k) : i <= j]
                                ELSE IF IsSome(def.fields[k].default)
                                THEN Ok(def.fields[k].default.Some)
                                ELSE IF def.fields[k].ty.k = "Option" THEN Ok(None)
                                ELSE Err(ErrorAt("missing field", def.fields[k].key))]),
                             LAMBDA filled :
                                IF AllOk(filled) THEN Ok(StructValue(def, filled))
                                ELSE FirstError(filled)))
    IN  CASE ty.k \in {"i32", "i64"} ->
                IF AvroKind(any) \in {"Int", "Long"} THEN Ok(AvroValue(any)) ELSE invalid
          [] ty.k = "bool" ->
                IF AvroKind(any) = "Boolean" THEN Ok(AvroValue(any)) ELSE invalid
          [] ty.k = "String" ->
                IF AvroKind(any) = "String" THEN Ok(AvroValue(any)) ELSE Err(Error("not a string"))
          [] ty.k = "FileType" ->
                IF AvroKind(any) \notin {"Int", "Long"} THEN invalid
                ELSE IF \E i \in DOMAIN FileType : FileType[i].repr = AvroValue(any)
                THEN Ok(UnitValue(FileType[CHOOSE i \in DOMAIN FileType :
                                                FileType[i].repr = AvroValue(any)].v))
                ELSE Err(Error("invalid value"))
          [] ty.k \in {"Option", "serde_bytes"} ->
                IF AvroKind(value) # "Union" THEN Err(Error("not a union"))
                ELSE IF AvroKind(any) = "Null" THEN Ok(None)
                ELSE IF ty.k = "serde_bytes"
                THEN IF AvroKind(any) \in {"Bytes", "String"} THEN Ok(Some(AvroValue(any)))
                     ELSE Err(Error("not a byte array"))
                ELSE With(from_value(ty.of, any),
                          LAMBDA r : IF IsOk(r) THEN Ok(Some(r.Ok)) ELSE r)
          [] ty.k = "Vec" ->
                IF AvroKind(any) # "Array" THEN Err(Error("not an array"))
                ELSE With(Evaluated([i \in DOMAIN AvroValue(any) |->
                                        from_value(ty.of, AvroValue(any)[i])]),
                          LAMBDA items :
                            IF AllOk(items)
                            THEN Ok(Evaluated([i \in DOMAIN items |-> items[i].Ok]))
                            ELSE FirstError(items))
          [] ty.k = "struct" ->
                IF AvroKind(any) = "Record" THEN record(StructOf(ty.name), AvroValue(any))
                ELSE Err(Error("not a record"))

\* apache_avro::to_value(value), the first step of Writer::append_ser
RECURSIVE to_value(_, _)
to_value(ty, x) ==
    LET union(index, value) == Avro("Union", [index |-> index, value |-> value])
    IN  CASE ty.k = "i32" -> Avro("Int", x)
          [] ty.k = "i64" -> Avro("Long", x)
          [] ty.k = "bool" -> Avro("Boolean", x)
          [] ty.k = "String" -> Avro("String", x)
          [] ty.k = "FileType" ->
                Avro("Int", FileType[CHOOSE i \in DOMAIN FileType :
                                        FileType[i].v \in DOMAIN x].repr)
          [] ty.k \in {"Option", "serde_bytes"} ->
                IF IsNone(x) THEN union(0, Avro("Null", TRUE))
                ELSE IF ty.k = "serde_bytes" THEN union(1, Avro("Bytes", x.Some))
                ELSE union(1, to_value(ty.of, x.Some))
          [] ty.k = "Vec" ->
                Avro("Array", Evaluated([i \in DOMAIN x |-> to_value(ty.of, x[i])]))
          [] ty.k = "struct" ->
                LET fields == StructOf(ty.name).fields
                IN  Avro("Record", Evaluated([i \in DOMAIN fields |->
                        Entry(fields[i].key, to_value(fields[i].ty, x[fields[i].f]))]))

\* The two schemas as Schema::parse_str reads them: a field with its name,
\* its type and its default (Absent without one).
field_summary ==
    [type |-> "record", name |-> "field_summary", fields |-> <<
        [name |-> "contains_null", schema |-> [type |-> "boolean"], default |-> Absent],
        [name |-> "contains_nan",
         schema |-> [type |-> "union", variants |-> <<[type |-> "null"], [type |-> "boolean"]>>],
         default |-> JNull],
        [name |-> "lower_bound",
         schema |-> [type |-> "union", variants |-> <<[type |-> "null"], [type |-> "bytes"]>>],
         default |-> JNull],
        [name |-> "upper_bound",
         schema |-> [type |-> "union", variants |-> <<[type |-> "null"], [type |-> "bytes"]>>],
         default |-> JNull] >>]

MANIFEST_LIST_V1_SCHEMA ==
    LET required(name, type, default) ==
            [name |-> name, schema |-> [type |-> type], default |-> default]
        optional(name, schema, default) ==
            [name |-> name,
             schema |-> [type |-> "union", variants |-> <<[type |-> "null"], schema>>],
             default |-> default]
    IN  [type |-> "record", name |-> "manifest_list", fields |-> <<
            required("manifest_path", "string", Absent),
            required("manifest_length", "long", Absent),
            required("partition_spec_id", "int", Absent),
            required("added_snapshot_id", "long", JNull),
            optional("added_files_count", [type |-> "int"], JNull),
            optional("existing_files_count", [type |-> "int"], JNull),
            optional("deleted_files_count", [type |-> "int"], JNull),
            optional("added_rows_count", [type |-> "long"], JNull),
            optional("existing_rows_count", [type |-> "long"], JNull),
            optional("deleted_rows_count", [type |-> "long"], JNull),
            optional("partitions", [type |-> "array", items |-> field_summary], JNull),
            optional("key_metadata", [type |-> "bytes"], JNull) >>]

\* the V1 schema in the place of the V2 schema
MANIFEST_LIST_V2_SCHEMA_as_v1 == MANIFEST_LIST_V1_SCHEMA

MANIFEST_LIST_V2_SCHEMA ==
    LET required(name, type, default) ==
            [name |-> name, schema |-> [type |-> type], default |-> default]
        optional(name, schema, default) ==
            [name |-> name,
             schema |-> [type |-> "union", variants |-> <<[type |-> "null"], schema>>],
             default |-> default]
    IN  [type |-> "record", name |-> "manifest_list", fields |-> <<
            required("manifest_path", "string", Absent),
            required("manifest_length", "long", Absent),
            required("partition_spec_id", "int", Absent),
            required("content", "int", JInt(0)),
            required("sequence_number", "long", JInt(0)),
            required("min_sequence_number", "long", JInt(0)),
            required("added_snapshot_id", "long", JNull),
            required("added_files_count", "int", JInt(0)),
            required("existing_files_count", "int", JInt(0)),
            required("deleted_files_count", "int", JInt(0)),
            required("added_rows_count", "long", JInt(0)),
            required("existing_rows_count", "long", JInt(0)),
            required("deleted_rows_count", "long", JInt(0)),
            optional("partitions", [type |-> "array", items |-> field_summary], JNull),
            optional("key_metadata", [type |-> "bytes"], JNull) >>]

\* Value::validate(schema), the second step of Writer::append_ser
RECURSIVE validate(_, _)
validate(schema, value) ==
    CASE schema.type = "null" -> AvroKind(value) = "Null"
      [] schema.type = "boolean" -> AvroKind(value) = "Boolean"
      [] schema.type = "int" -> AvroKind(value) = "Int"
      [] schema.type = "long" -> AvroKind(value) = "Long"
      [] schema.type = "string" -> AvroKind(value) = "String"
      [] schema.type = "bytes" -> AvroKind(value) = "Bytes"
      [] schema.type = "union" ->
            IF AvroKind(value) = "Union"
            THEN /\ AvroValue(value).index + 1 \in DOMAIN schema.variants
                 /\ validate(schema.variants[AvroValue(value).index + 1], AvroValue(value).value)
            ELSE \E i \in DOMAIN schema.variants : validate(schema.variants[i], value)
      [] schema.type = "array" ->
            /\ AvroKind(value) = "Array"
            /\ \A i \in DOMAIN AvroValue(value) : validate(schema.items, AvroValue(value)[i])
      [] schema.type = "record" ->
            /\ AvroKind(value) = "Record"
            /\ Len(AvroValue(value)) = Len(schema.fields)
            /\ \A i \in DOMAIN schema.fields :
                    /\ AvroValue(value)[i].k = schema.fields[i].name
                    /\ validate(schema.fields[i].schema, AvroValue(value)[i].v)

\* The binary encoding of a value under a schema, as the items the writer
\* puts out one after another: a variable-length integer, a byte, a run of
\* bytes.  Nothing of it names a field or a type; the schema tells the
\* reader what each item is.
RECURSIVE encode(_, _)
encode(schema, value) ==
    CASE schema.type = "null" -> <<>>
      [] schema.type = "boolean" -> << [byte |-> IF AvroValue(value) THEN 1 ELSE 0] >>
      [] schema.type \in {"int", "long"} -> << [varint |-> AvroValue(value)] >>
      [] schema.type \in {"string", "bytes"} ->
            << [varint |-> Len(AvroValue(value))], [raw |-> AvroValue(value)] >>
      [] schema.type = "union" ->
            LET index == IF AvroKind(value) = "Union" THEN AvroValue(value).index
                         ELSE (CHOOSE i \in DOMAIN schema.variants :
                                /\ validate(schema.variants[i], value)
                                /\ \A j \in 1..(i-1) : ~validate(schema.variants[j], value)) - 1
                inner == IF AvroKind(value) = "Union" THEN AvroValue(value).value ELSE value
            IN  << [varint |-> index] >> \o encode(schema.variants[index + 1], inner)
      [] schema.type = "array" ->
            IF AvroValue(value) = <<>> THEN << [varint |-> 0] >>
            ELSE << [varint |-> Len(AvroValue(value))] >>
                 \o Concat(Evaluated([i \in DOMAIN AvroValue(value) |->
                                        encode(schema.items, AvroValue(value)[i])]))
                 \o << [varint |-> 0] >>
      [] schema.type = "record" ->
            Concat(Evaluated([i \in DOMAIN schema.fields |->
                                encode(schema.fields[i].schema, AvroValue(value)[i].v)]))

\* The reader's side: the value of a schema at the head of the items, and
\* the items after it.
RECURSIVE decode(_, _)
RECURSIVE decode_all(_, _)
decode_all(schemas, items) ==
    IF schemas = <<>> THEN [values |-> <<>>, rest |-> items]
    ELSE With(decode(Head(schemas), items),
              LAMBDA first :
                With(decode_all(Tail(schemas), first.rest),
                     LAMBDA others :
                        [values |-> <<first.value>> \o others.values,
                         rest |-> others.rest]))

decode(schema, items) ==
    CASE schema.type = "null" -> [value |-> Avro("Null", TRUE), rest |-> items]
      [] schema.type = "boolean" ->
            [value |-> Avro("Boolean", Head(items).byte = 1), rest |-> Tail(items)]
      [] schema.type = "int" ->
            [value |-> Avro("Int", Head(items).varint), rest |-> Tail(items)]
      [] schema.type = "long" ->
            [value |-> Avro("Long", Head(items).varint), rest |-> Tail(items)]
      [] schema.type \in {"string", "bytes"} ->
            [value |-> Avro(IF schema.type = "string" THEN "String" ELSE "Bytes",
                            items[2].raw),
             rest |-> Tail(Tail(items))]
      [] schema.type = "union" ->
            With(decode(schema.variants[Head(items).varint + 1], Tail(items)),
                 LAMBDA branch :
                    [value |-> Avro("Union", [index |-> Head(items).varint,
                                             value |-> branch.value]),
                     rest |-> branch.rest])
      [] schema.type = "array" ->
            IF Head(items).varint = 0
            THEN [value |-> Avro("Array", <<>>), rest |-> Tail(items)]
            ELSE With(decode_all([i \in 1..Head(items).varint |-> schema.items],
                                 Tail(items)),
                      LAMBDA block :
                        [value |-> Avro("Array", block.values), rest |-> Tail(block.rest)])
      [] schema.type = "record" ->
            With(decode_all([i \in DOMAIN schema.fields |-> schema.fields[i].schema],
                            items),
                 LAMBDA read :
                    [value |-> Avro("Record", Evaluated([i \in DOMAIN schema.fields |->
                                    Entry(schema.fields[i].name, read.values[i])])),
                     rest |-> read.rest])

-----------------------------------------------------------------------------
(* The runs of the manifest-list codec: a record read from a file is       *)
(* decoded, the model is written into a container with the schema of its   *)
(* own version, and the record read from that container is decoded.        *)

\* the two models with the schema avro_schema() gives each
ManifestJobs ==
    [ManifestListV2 |-> [ty |-> Struct("ManifestListV2"), schema |-> MANIFEST_LIST_V2_SCHEMA],
     ManifestListV1 |-> [ty |-> Struct("ManifestListV1"), schema |-> MANIFEST_LIST_V1_SCHEMA]]

\* the values a caller can build
ManifestValues(list) ==
    LET summaries ==
            {None, Some(<<>>),
             Some(<< [contains_null |-> FALSE, contains_nan |-> Some(FALSE),
                      lower_bound |-> Some(<<10, 0, 0, 0>>),
                      upper_bound |-> Some(<<12, 0, 0, 0>>)],
                     [contains_null |-> TRUE, contains_nan |-> None,
                      lower_bound |-> None, upper_bound |-> Some(<<>>)] >>)}
        keys == {None, Some(<<1, 2>>)}
    IN  IF list = "ManifestListV2"
        THEN {[manifest_path |-> <<"m">>, manifest_length |-> 8557,
               partition_spec_id |-> 0, content |-> UnitValue(c),
               sequence_number |-> 1, min_sequence_number |-> 1,
               added_snapshot_id |-> 16,
               added_files_count |-> n, existing_files_count |-> 3,
               deleted_files_count |-> 0,
               added_rows_count |-> n, existing_rows_count |-> 4,
               deleted_rows_count |-> 0,
               partitions |-> p, key_metadata |-> k] :
                    c \in {"Data", "Delete"}, n \in {0, 2}, p \in summaries, k \in keys}
        ELSE {[manifest_path |-> <<"m">>, manifest_length |-> 7827,
               partition_spec_id |-> 0, added_snapshot_id |-> 91,
               added_files_count |-> n, existing_files_count |-> r,
               deleted_files_count |-> Some(0),
               added_rows_count |-> r, existing_rows_count |-> Some(4),
               deleted_rows_count |-> r,
               partitions |-> p, key_metadata |-> k] :
                    n \in {None, Some(2)}, r \in {None, Some(3)},
                    p \in summaries, k \in keys}

\* the name some writers give a counter in place of its own
Aliases ==
    [added_files_count |-> "added_data_files_count",
     existing_files_count |-> "existing_data_files_count",
     deleted_files_count |-> "deleted_data_files_count"]

\* The records a file can hold.  The writer of a file wrote them under its
\* own schema: a record of one of the two schemas above, or such a record
\* with one field spelled with the alias, left out, added under another
\* name or holding another value.
ManifestRecords ==
    LET union(index, value) == Avro("Union", [index |-> index, value |-> value])
        base == UNION {{AvroValue(to_value(ManifestJobs[list].ty, x)) :
                            x \in {y \in ManifestValues(list) :
                                    /\ y.partitions # Some(<<>>)
                                    /\ IsSome(y.partitions) = IsSome(y.key_metadata)}} :
                       list \in DOMAIN ManifestJobs}
                \cup {SubSeq(AvroValue(to_value(ManifestJobs.ManifestListV1.ty, x)), 1, 4) :
                        x \in ManifestValues("ManifestListV1")}
        names == {MANIFEST_LIST_V2_SCHEMA.fields[i].name :
                        i \in DOMAIN MANIFEST_LIST_V2_SCHEMA.fields}
                 \cup {Aliases[name] : name \in DOMAIN Aliases}
        others == {Absent, union(0, Avro("Null", TRUE)),
                   Avro("Int", 0), Avro("Int", 1), Avro("Int", 2), Avro("Int", -1),
                   Avro("Long", 1), union(1, Avro("Int", 5)), union(1, Avro("Long", 5)),
                   Avro("String", <<"1">>), Avro("Null", TRUE)}
        spelled(entries, key, as) ==
            [i \in DOMAIN entries |->
                IF entries[i].k = key THEN Entry(as, entries[i].v) ELSE entries[i]]
    IN  {Avro("Record", entries) : entries \in base}
        \cup {Avro("Record", IF to = Absent THEN Without(entries, {key})
                             ELSE SetKey(entries, key, to)) :
                entries \in base, key \in names, to \in others}
        \cup {Avro("Record", spelled(entries, name, Aliases[name])) :
                entries \in base, name \in DOMAIN Aliases}

\* Writer::new(schema, ..), append_ser(x), into_inner(): the value is
\* turned into a Value, validated and encoded; the container holds the
\* schema of its writer and the encoded record
append_ser(schema, ty, x) ==
    With(to_value(ty, x),
         LAMBDA value :
            IF validate(schema, value)
            THEN Ok([schema |-> schema, data |-> encode(schema, value)])
            ELSE Err(Error("validation")))

ManifestInit ==
    /\ job \in DOMAIN ManifestJobs
    /\ emitted = Nil
    /\ redecoded = Nil
    /\ statics = Nil
    /\ \/ /\ input \in ManifestRecords
          /\ decoded = Nil
          /\ pc = "decode"
       \/ /\ input = Nil
          /\ decoded \in {Ok(x) : x \in ManifestValues(job)}
          /\ pc = "encode"

\* apache_avro::from_value::<ManifestListV2>(&record), and the same for V1
ManifestDecode ==
    /\ job \in DOMAIN ManifestJobs /\ pc = "decode"
    /\ decoded' = from_value(ManifestJobs[job].ty, input)
    /\ pc' = IF IsOk(decoded') THEN "encode" ELSE "done"
    /\ UNCHANGED <<statics, job, input, emitted, redecoded>>

\* the model written under avro_schema() of its version
ManifestEncode ==
    /\ job \in DOMAIN ManifestJobs /\ pc = "encode"
    /\ emitted' = append_ser(ManifestJobs[job].schema, ManifestJobs[job].ty, decoded.Ok)
    /\ pc' = IF IsOk(emitted') THEN "redecode" ELSE "done"
    /\ UNCHANGED <<statics, job, input, decoded, redecoded>>

\* Reader::new(container): the record read under the writer's schema, and
\* from_value of it
ManifestRedecode ==
    /\ job \in DOMAIN ManifestJobs /\ pc = "redecode"
    /\ redecoded' = from_value(ManifestJobs[job].ty,
                               decode(emitted.Ok.schema, emitted.Ok.data).value)
    /\ pc' = "done"
    /\ UNCHANGED <<statics, job, input, decoded, emitted>>

ManifestNext == ManifestDecode \/ ManifestEncode \/ ManifestRedecode

SpecManifest == ManifestInit /\ [][ManifestNext]_vars

-----------------------------------------------------------------------------
(* The lazily initialised statics.  The four regular expressions of the    *)
(* parametric strings (once_cell Lazy in schema.rs, lazy_static in         *)
(* partition_spec.rs) and the two parsed schemas of the manifest list      *)
(* (lazy_static in manifest_list.rs) are made by the first call that needs *)
(* them.  Several threads of one process make their calls at once; each    *)
(* forces the static its call needs, runs the initialiser if it is the     *)
(* first to come, and computes its result with the value.                  *)

\* how many threads call at once
Threads == 2

\* what the initialiser of each static makes
Initialisers ==
    [fixed |-> "^fixed\\[(?P<bkt>\\d+)]$",
     decimal |-> "^decimal\\((?P<p>\\d+)\\s*,\\s*(?P<s>\\d+)\\)$",
     bucket |-> "^bucket\\[(?P<bucket>\\d+)\\]$",
     truncate |-> "^truncate\\[(?P<truncate>\\d+)\\]$",
     schema_v2 |-> MANIFEST_LIST_V2_SCHEMA,
     schema_v1 |-> MANIFEST_LIST_V1_SCHEMA]

\* the calls of the threads: a type string decoded, a model written
LazyCalls ==
    {[codec |-> "PrimitiveType", arg |-> JStr(s)] :
        s \in {Literal.fixed \o <<"[", "1", "6", "]">>, Literal.fixed \o <<"[", "x", "]">>,
               Literal.decimal \o <<"(", "9", ",", " ", "2", ")">>, <<"i", "n", "t">>}}
    \cup {[codec |-> "Transform", arg |-> JStr(s)] :
        s \in {Literal.bucket \o <<"[", "1", "6", "]">>,
               Literal.truncate \o <<"[", "4", "]">>, Literal.truncate}}
    \cup {[codec |-> list,
           arg |-> CHOOSE x \in ManifestValues(list) :
                        IsSome(x.partitions) /\ IsSome(x.key_metadata)] :
            list \in DOMAIN ManifestJobs}

\* the static a call forces ("none" where it forces none)
StaticOf(call) ==
    CASE call.codec = "PrimitiveType" ->
            IF StartsWith(call.arg.str, Literal.fixed) THEN "fixed"
            ELSE IF StartsWith(call.arg.str, Literal.decimal) THEN "decimal"
            ELSE "none"
      [] call.codec = "Transform" ->
            IF StartsWith(call.arg.str, Literal.bucket) THEN "bucket"
            ELSE IF StartsWith(call.arg.str, Literal.truncate) THEN "truncate"
            ELSE "none"
      [] call.codec = "ManifestListV2" -> "schema_v2"
      [] call.codec = "ManifestListV1" -> "schema_v1"

\* what a call gives with the value it finds in the static it forces
Outcome(call, value) ==
    IF call.codec \in DOMAIN ManifestJobs
    THEN append_ser(value, ManifestJobs[call.codec].ty, call.arg)
    ELSE IF StaticOf(call) = "none" \/ value = Initialisers[StaticOf(call)]
    THEN De(CodecJobs[call.codec], call.arg)
    ELSE Err(Error("no match"))

\* a variant in which a caller that finds the initialiser of another thread
\* running goes on without waiting
Ready_unsynchronised(cell) == cell.state # "incomplete"

\* Once: a caller goes on to the value only when the initialiser has
\* completed
Ready(cell) == cell.state = "complete"

LazyInit ==
    /\ job = "Concurrent"
    /\ emitted = Nil
    /\ redecoded = Nil
    /\ input \in [1..Threads -> LazyCalls]
    /\ decoded = [t \in 1..Threads |-> Nil]
    /\ pc = [t \in 1..Threads |-> "call"]
    /\ \E before \in {{}, DOMAIN Initialisers} \cup {{s} : s \in DOMAIN Initialisers} :
          statics = [s \in DOMAIN Initialisers |->
                        IF s \in before
                        THEN [state |-> "complete", value |-> Some(Initialisers[s]),
                              inits |-> 1]
                        ELSE [state |-> "incomplete", value |-> None, inits |-> 0]]

\* Lazy::force, the Deref of a lazy_static: the caller goes on when the
\* value is there, takes the initialisation when nobody has, and waits
\* while another thread runs it
LazyForce(t) ==
    /\ job = "Concurrent" /\ pc[t] = "call"
    /\ LET s == StaticOf(input[t])
       IN  IF s = "none"
           THEN pc' = [pc EXCEPT ![t] = "use"] /\ UNCHANGED statics
           ELSE IF Ready(statics[s])
           THEN pc' = [pc EXCEPT ![t] = "use"] /\ UNCHANGED statics
           ELSE /\ statics[s].state = "incomplete"
                /\ statics' = [statics EXCEPT ![s].state = "running"]
                /\ pc' = [pc EXCEPT ![t] = "init"]
    /\ UNCHANGED <<job, input, decoded, emitted, redecoded>>

\* the initialiser: Regex::new(..).unwrap(), Schema::parse_str(..).unwrap()
LazyInitialise(t) ==
    /\ job = "Concurrent" /\ pc[t] = "init"
    /\ statics' = [statics EXCEPT ![StaticOf(input[t])] =
                        [state |-> "complete",
                         value |-> Some(Initialisers[StaticOf(input[t])]),
                         inits |-> @.inits + 1]]
    /\ pc' = [pc EXCEPT ![t] = "use"]
    /\ UNCHANGED <<job, input, decoded, emitted, redecoded>>

\* the rest of the call, with the value read from the static; a value read
\* before its initialiser has completed gives any outcome
LazyUse(t) ==
    /\ job = "Concurrent" /\ pc[t] = "use"
    /\ LET s == StaticOf(input[t])
       IN  \E result \in
                IF s = "none" THEN {Outcome(input[t], Nil)}
                ELSE IF IsSome(statics[s].value)
                THEN {Outcome(input[t], statics[s].value.Some)}
                ELSE {Ok(Nil), Err(Error("no match"))} :
              decoded' = [decoded EXCEPT ![t] = result]
    /\ pc' = [pc EXCEPT ![t] = "done"]
    /\ UNCHANGED <<job, input, emitted, redecoded, statics>>

LazyNext == \E t \in 1..Threads : LazyForce(t) \/ LazyInitialise(t) \/ LazyUse(t)

SpecLazy == LazyInit /\ [][LazyNext]_vars

-----------------------------------------------------------------------------
(* Properties of the table-metadata codec (specification Spec).            *)

\* what a reader of the key format-version finds in a document
FormatVersionOf(doc) ==
    IF IsObj(doc) /\ HasKey(doc.obj, "format-version")
    THEN Get(doc.obj, "format-version")
    ELSE Absent

\* the run was given a document and has decoded it
DecodedDocument == input # Nil /\ decoded # Nil

\* the keys the V2 shape requires beyond the common ones, the common
\* required keys, and the keys the V1 shape requires
V2Required ==
    {"table-uuid", "last-sequence-number", "schemas", "current-schema-id",
     "partition-specs", "default-spec-id", "last-partition-id", "sort-orders"}
CommonRequired ==
    {"location", "last-updated-ms", "last-column-id", "default-sort-order-id"}
V1Required == CommonRequired \cup {"schema", "partition-spec", "partition-specs"}

\* the keys a V1 document may omit, with the field each fills
V1Optional ==
    [k \in {"table-uuid", "schemas", "current-schema-id", "default-spec-id",
            "last-partition-id", "sort-orders"} |->
        CASE k = "table-uuid" -> "table_uuid"
          [] k = "schemas" -> "schemas"
          [] k = "current-schema-id" -> "current_schema_id"
          [] k = "default-spec-id" -> "default_spec_id"
          [] k = "last-partition-id" -> "last_partition_id"
          [] k = "sort-orders" -> "sort_orders"]

\* doc holds every key of required, and each of its keys that full has
\* holds the value it has in full
WellFormed(doc, full, required) ==
    /\ IsObj(doc)
    /\ required \subseteq Keys(doc.obj)
    /\ \A i \in DOMAIN doc.obj :
          HasKey(full.obj, doc.obj[i].k) =>
              doc.obj[i].v = Get(full.obj, doc.obj[i].k)

\* C1: decoding a table-metadata document dispatches on format-version
\* alone: a model is V1 only for the integer 1 and V2 only for the integer
\* 2, its format_version field is that number, and a missing key, a value
\* that is no integer or any other integer gives an error and no model.
C1_VersionDispatch ==
    DecodedDocument =>
        LET v == FormatVersionOf(input) IN
        /\ (v = JInt(1) /\ IsOk(decoded)) =>
                /\ "V1" \in DOMAIN decoded.Ok
                /\ decoded.Ok.V1.format_version = 1
        /\ (v = JInt(2) /\ IsOk(decoded)) =>
                /\ "V2" \in DOMAIN decoded.Ok
                /\ decoded.Ok.V2.format_version = 2
        /\ v \notin {JInt(1), JInt(2)} => IsErr(decoded)

C1_Witness ==
    /\ DecodedDocument
    /\ FormatVersionOf(input) = JInt(2)
    /\ IsOk(decoded)
    /\ "V2" \in DOMAIN decoded.Ok
    /\ ~HasKey(input.obj, "snapshots")

\* C2: for every document that decodes, decoding what the model emits
\* succeeds and gives the same variant and an equal model.
C2_DocumentRoundTrip ==
    (input # Nil /\ pc = "done" /\ IsOk(decoded)) => redecoded = decoded

C2_Witness ==
    /\ input # Nil /\ pc = "done"
    /\ IsOk(decoded) /\ "V1" \in DOMAIN decoded.Ok
    /\ IsSome(decoded.Ok.V1.snapshots)
    /\ redecoded = decoded

\* C3: the emitted document holds the key format-version as the integer
\* discriminant of the variant (1 for V1, 2 for V2), so that whoever reads
\* that key from it finds that integer.
C3_EmitsIntegerVersion ==
    emitted # Nil =>
        /\ HasKey(emitted.obj, "format-version")
        /\ \A i \in DOMAIN emitted.obj :
              emitted.obj[i].k = "format-version" =>
                  emitted.obj[i].v =
                      JInt(IF "V2" \in DOMAIN decoded.Ok THEN 2 ELSE 1)

\* C4: the version is checked before the shape: a missing, non-integer or
\* unsupported format-version gives the version error whatever the body
\* holds, and an error of a shape decoder comes wrapped with the version (1
\* or 2) that was dispatched.
C4_VersionBeforeShape ==
    DecodedDocument =>
        LET v == FormatVersionOf(input) IN
        /\ v = Absent =>
              decoded = Err(Error("Unable to find 'format-version' key in metadata"))
        /\ (v # Absent /\ Kind(v) \notin {"int", "long"}) =>
              decoded = Err(Error("Invalid 'format-version' in metadata"))
        /\ (Kind(v) \in {"int", "long"} /\ v \notin {JInt(1), JInt(2)}) =>
              decoded = Err([kind |-> "Unsupported metadata format-version",
                             format_version |-> v])
        /\ \A n \in {1, 2} :
              (v = JInt(n) /\ IsErr(decoded)) =>
                  /\ DOMAIN decoded.Err = {"kind", "version", "error"}
                  /\ decoded.Err.version = n
                  /\ "kind" \in DOMAIN decoded.Err.error

C4_Witness ==
    /\ DecodedDocument
    /\ FormatVersionOf(input) = JInt(3)
    /\ Get(input.obj, "location") = JInt(7)
    /\ decoded.Err.kind = "Unsupported metadata format-version"

\* C5 as stated: a V2 document that lacks the key refs fails to decode.
C5_RefsRequired ==
    (DecodedDocument /\ FormatVersionOf(input) = JInt(2)
        /\ ~HasKey(input.obj, "refs")) => IsErr(decoded)

\* C5 as amended: a V2 document that lacks the key refs decodes when the
\* rest of it is well formed, with refs absent in the model; refs, where the
\* document holds it, is null or a mapping from names to refs, or the
\* document fails to decode.
C5_RefsOptional ==
    (DecodedDocument /\ FormatVersionOf(input) = JInt(2)) =>
        /\ (~HasKey(input.obj, "refs")
                /\ WellFormed(input, FullV2, V2Required \cup CommonRequired)) =>
              /\ IsOk(decoded)
              /\ decoded.Ok.V2.refs = None
        /\ (HasKey(input.obj, "refs") /\ IsOk(decoded)) =>
              LET refs == Get(input.obj, "refs") IN
              /\ IsNull(refs) \/ IsObj(refs)
              /\ IsNull(refs) => decoded.Ok.V2.refs = None
              /\ IsObj(refs) =>
                    /\ IsSome(decoded.Ok.V2.refs)
                    /\ DOMAIN decoded.Ok.V2.refs.Some = Keys(refs.obj)

C5_Witness ==
    /\ DecodedDocument
    /\ FormatVersionOf(input) = JInt(2)
    /\ ~HasKey(input.obj, "refs")
    /\ IsOk(decoded)
    /\ decoded.Ok.V2.refs = None

\* C6: a V2 document fails to decode when one of table-uuid,
\* last-sequence-number, schemas, current-schema-id, partition-specs,
\* default-spec-id, last-partition-id, sort-orders is missing, and decodes
\* when all of them and the common required keys hold well-formed values.
C6_V2RequiredKeys ==
    (DecodedDocument /\ FormatVersionOf(input) = JInt(2)) =>
        /\ (\E key \in V2Required : ~HasKey(input.obj, key)) => IsErr(decoded)
        /\ WellFormed(input, FullV2, V2Required \cup CommonRequired) =>
              IsOk(decoded)

C6_Witness ==
    /\ DecodedDocument
    /\ FormatVersionOf(input) = JInt(2)
    /\ V2Required \ Keys(input.obj) = {"sort-orders"}
    /\ CommonRequired \subseteq Keys(input.obj)
    /\ IsErr(decoded)

\* C7: a V1 document decodes when table-uuid, schemas, current-schema-id,
\* default-spec-id, last-partition-id and sort-orders are omitted, each then
\* absent in the model; it fails when schema or partition-spec is missing;
\* and when it holds both schema and schemas both are kept and survive
\* decode, emit, decode.
C7_V1Shape ==
    (DecodedDocument /\ FormatVersionOf(input) = JInt(1)) =>
        /\ (~HasKey(input.obj, "schema") \/ ~HasKey(input.obj, "partition-spec"))
              => IsErr(decoded)
        /\ WellFormed(input, FullV1, V1Required) =>
              /\ IsOk(decoded)
              /\ \A key \in DOMAIN V1Optional :
                    ~HasKey(input.obj, key) =>
                        decoded.Ok.V1[V1Optional[key]] = None
        /\ (IsOk(decoded) /\ HasKey(input.obj, "schema")
                /\ HasKey(input.obj, "schemas")
                /\ IsArr(Get(input.obj, "schemas"))) =>
              /\ Ok(decoded.Ok.V1.schema) =
                    De(Struct("IcebergSchemaV1"), Get(input.obj, "schema"))
              /\ Ok(decoded.Ok.V1.schemas) =
                    De(Opt(Vec(Struct("IcebergSchemaV1"))),
                       Get(input.obj, "schemas"))
              /\ IsSome(decoded.Ok.V1.schemas)
              /\ pc = "done" => redecoded = decoded

C7_Witness ==
    /\ DecodedDocument /\ pc = "done"
    /\ FormatVersionOf(input) = JInt(1)
    /\ HasKey(input.obj, "schema") /\ HasKey(input.obj, "schemas")
    /\ ~HasKey(input.obj, "table-uuid")
    /\ IsOk(decoded)
    /\ decoded.Ok.V1.table_uuid = None
    /\ IsSome(decoded.Ok.V1.schemas)
    /\ redecoded = decoded

\* the keys that hold null anywhere in a document
RECURSIVE NullKeys(_)
NullKeys(v) ==
    IF IsObj(v)
    THEN {v.obj[i].k : i \in {j \in DOMAIN v.obj : IsNull(v.obj[j].v)}}
         \cup UNION {NullKeys(v.obj[i].v) : i \in DOMAIN v.obj}
    ELSE IF IsArr(v) THEN UNION {NullKeys(v.arr[i]) : i \in DOMAIN v.arr}
    ELSE {}

\* C8: an emitted document holds no optional field as null; an absent
\* optional field is left out, and only parent-snapshot-id may be null.
C8_NoNullOnEmit ==
    emitted # Nil => NullKeys(emitted) \subseteq {"parent-snapshot-id"}

-----------------------------------------------------------------------------
(* Properties of the schema type codec (specification SpecType).           *)

\* what a reader of the key type finds in an object node
TagOf(node) ==
    IF HasKey(node.obj, "type") THEN Get(node.obj, "type") ELSE Absent

\* C9: an object node decodes to the variant its type names and to no
\* other: Struct only for "struct", List only for "list", Map only for
\* "map"; with type missing or holding anything else it fails to decode,
\* whatever keys of a composite it holds.
C9_TagDispatch ==
    (DecodedDocument /\ IsObj(input)) =>
        /\ IsOk(decoded) =>
              /\ "Struct" \in DOMAIN decoded.Ok <=> TagOf(input) = JStr(Literal.struct)
              /\ "List" \in DOMAIN decoded.Ok <=> TagOf(input) = JStr(Literal.list)
              /\ "Map" \in DOMAIN decoded.Ok <=> TagOf(input) = JStr(Literal.map)
        /\ TagOf(input) \notin {JStr(Literal.struct), JStr(Literal.list), JStr(Literal.map)} =>
              IsErr(decoded)

\* C10: a type built in memory (a bare primitive, Fixed(N), a Decimal of
\* precision at most 38, and structs, lists and maps of them) decodes from
\* what it emits to an equal type, and a struct's fields are emitted and
\* decoded again in the order of its sequence.
C10_TypeRoundTrip ==
    (input = Nil /\ pc = "done") =>
        /\ redecoded = decoded
        /\ "Struct" \in DOMAIN decoded.Ok =>
              LET written == Get(emitted.obj, "fields").arr
                  fields == decoded.Ok.Struct.fields
              IN  /\ Len(written) = Len(fields)
                  /\ \A i \in DOMAIN fields :
                        /\ Get(written[i].obj, "name") = JStr(fields[i].name)
                        /\ redecoded.Ok.Struct.fields[i].name = fields[i].name

C10_Witness ==
    /\ input = Nil /\ pc = "done"
    /\ IsOk(redecoded) /\ redecoded = decoded
    /\ "Struct" \in DOMAIN decoded.Ok
    /\ Len(decoded.Ok.Struct.fields) = 2
    /\ decoded.Ok.Struct.fields[1].name = <<"b">>
    /\ "Map" \in DOMAIN decoded.Ok.Struct.fields[2].field_type


-----------------------------------------------------------------------------
(* The part codecs (SpecCodec).                                            *)

\* C11: every transform (identity, year, month, day, hour, bucket[N] and
\* truncate[N] for a u32 N), and every partition spec whose fields carry
\* such transforms, is decoded from what was emitted for it as the same
\* value, the fields of a partition spec in their order.
C11_TransformRoundTrip ==
    (job \in {"Transform", "PartitionSpec"} /\ pc = "done" /\ IsOk(decoded))
        => redecoded = decoded

\* a partition spec built in memory whose first field is bucket[4294967295]
\* and whose second is year came back as it was
C11_Witness ==
    /\ job = "PartitionSpec" /\ pc = "done" /\ input = Nil
    /\ IsOk(decoded) /\ redecoded = decoded
    /\ Len(decoded.Ok["fields"]) = 2
    /\ decoded.Ok["fields"][1]["transform"] = [Bucket |-> [hi |-> 65535, lo |-> 65535]]
    /\ decoded.Ok["fields"][2]["transform"] = UnitValue("Year")
    /\ emitted.obj[2].v.arr[1].obj[4].v
            = JStr(Literal.bucket \o <<"[", "4", "2", "9", "4", "9", "6", "7", "2", "9", "5", "]">>)

\* the digits of a numeral without its leading zeros
RECURSIVE Significant(_)
Significant(s) ==
    IF Len(s) > 1 /\ Head(s) = "0" THEN Significant(Tail(s)) ELSE s

\* a numeral of ASCII digits
IsNumeral(s) == s # <<>> /\ \A i \in 1..Len(s) : IsDigit(s[i])

\* the number a numeral spells is greater than the one max spells
Above(s, max) ==
    LET n == Significant(s) IN
    \/ Len(n) > Len(max)
    \/ /\ Len(n) = Len(max)
       /\ \E i \in 1..Len(n) :
            /\ DigitValue(n[i]) > DigitValue(max[i])
            /\ \A k \in 1..(i-1) : n[k] = max[k]

\* the numerals n for which the string is word[n]
Bracketed(str, word) ==
    {n \in {SubSeq(str, Len(word) + 2, Len(str) - 1)} :
        IsNumeral(n) /\ str = word \o <<"[">> \o n \o <<"]">>}

\* the pairs <<p, s>> of numerals for which the string is decimal(p,s) with
\* any spaces or tabs around the comma
DecimalParts(str) ==
    LET w == Len(Literal.decimal) + 1 IN
    {<<SubSeq(str, w + 1, a), SubSeq(str, b, Len(str) - 1)>> :
        <<a, c, b>> \in {t \in (1..Len(str)) \X (1..Len(str)) \X (1..Len(str)) :
            /\ w < t[1] /\ t[1] < t[2] /\ t[2] < t[3] /\ t[3] < Len(str)
            /\ SubSeq(str, 1, w) = Literal.decimal \o <<"(">>
            /\ str[Len(str)] = ")"
            /\ str[t[2]] = ","
            /\ IsNumeral(SubSeq(str, w + 1, t[1]))
            /\ IsNumeral(SubSeq(str, t[3], Len(str) - 1))
            /\ \A k \in ((t[1] + 1)..(t[2] - 1)) \cup ((t[2] + 1)..(t[3] - 1)) :
                    str[k] \in {" ", "\t"}}}

U32MaxDigits == <<"4", "2", "9", "4", "9", "6", "7", "2", "9", "5">>

\* C12: a numeric parameter is range-checked and never wrapped or cut:
\* decimal(P,S) is rejected when P is above 38 (also when P is 256 or more)
\* or S is above 4294967295, fixed[N], bucket[N] and truncate[N] are
\* rejected when N is above 4294967295, and a parameter that is taken is
\* the number the document spells; so every decoded Decimal has a precision
\* of at most 38.
C12_RangeChecked ==
    LET Checked(source, result) ==
            /\ \A word \in {Literal.fixed, Literal.bucket, Literal.truncate} :
                \A n \in Bracketed(source.str, word) :
                    IF Above(n, U32MaxDigits) THEN IsErr(result)
                    ELSE IsOk(result) =>
                            \E v \in {"Fixed", "Bucket", "Truncate"} :
                                /\ DOMAIN result.Ok = {v}
                                /\ FormatU32(result.Ok[v]) = Significant(n)
            /\ \A d \in DecimalParts(source.str) :
                    IF Above(d[1], <<"3", "8">>) \/ Above(d[2], U32MaxDigits)
                    THEN IsErr(result)
                    ELSE IsOk(result) =>
                            /\ DOMAIN result.Ok = {"Decimal"}
                            /\ FormatUInt(result.Ok.Decimal.precision) = Significant(d[1])
                            /\ FormatU32(result.Ok.Decimal.scale) = Significant(d[2])
            /\ (IsOk(result) /\ "Decimal" \in DOMAIN result.Ok)
                    => result.Ok.Decimal.precision <= 38
    IN  job \in {"PrimitiveType", "Transform"} =>
            /\ (input # Nil /\ IsStr(input) /\ decoded # Nil) => Checked(input, decoded)
            /\ redecoded # Nil => Checked(emitted, redecoded)

\* decimal(294,20), whose precision is 38 in its low eight bits, was rejected
C12_Witness ==
    /\ job = "PrimitiveType" /\ pc = "done"
    /\ input = JStr(Literal.decimal \o <<"(", "2", "9", "4", ",", "2", "0", ")">>)
    /\ DecimalParts(input.str) = {<< <<"2", "9", "4">>, <<"2", "0">> >>}
    /\ IsErr(decoded)

\* C13: every Decimal the decoder produces has a precision from 1 to 38;
\* decimal(0, 0) is rejected.
C13_PrecisionAtLeastOne ==
    LET Positive(result) ==
            (IsOk(result) /\ "Decimal" \in DOMAIN result.Ok)
                => result.Ok.Decimal.precision \in 1..38
    IN  job = "PrimitiveType" =>
            /\ (input # Nil /\ decoded # Nil) => Positive(decoded)
            /\ (input = JStr(Literal.decimal \o <<"(", "0", ",", " ", "0", ")">>)
                    /\ decoded # Nil) => IsErr(decoded)

\* C14: a string that begins with fixed or decimal (read as a type), or with
\* bucket or truncate (read as a transform), and is not exactly fixed[N],
\* decimal(P,S) with optional whitespace around the comma, bucket[N] or
\* truncate[N], is a decode error that carries the offending string, and is
\* not looked up among the bare names.
C14_MalformedParameter ==
    LET Rejected(source, result) ==
            /\ IsErr(result)
            /\ DOMAIN result.Err = {"kind", "text"}
            /\ result.Err.text = source.str
            /\ result.Err.kind # "unknown variant"
        Strict(source, result) ==
            /\ (job = "PrimitiveType" /\ StartsWith(source.str, Literal.fixed)
                    /\ Bracketed(source.str, Literal.fixed) = {})
                => Rejected(source, result)
            /\ (job = "PrimitiveType" /\ StartsWith(source.str, Literal.decimal)
                    /\ DecimalParts(source.str) = {})
                => Rejected(source, result)
            /\ (job = "Transform" /\ StartsWith(source.str, Literal.bucket)
                    /\ Bracketed(source.str, Literal.bucket) = {})
                => Rejected(source, result)
            /\ (job = "Transform" /\ StartsWith(source.str, Literal.truncate)
                    /\ Bracketed(source.str, Literal.truncate) = {})
                => Rejected(source, result)
    IN  (input # Nil /\ IsStr(input) /\ decoded # Nil) => Strict(input, decoded)

\* decimal[40,2] was rejected as a malformed decimal, with the string in the
\* error
C14_Witness ==
    /\ job = "PrimitiveType" /\ pc = "done"
    /\ input = JStr(Literal.decimal \o <<"[", "4", "0", ",", "2", "]">>)
    /\ DecimalParts(input.str) = {}
    /\ decoded = Err(ErrorAt("Wrong decimal type format", input.str))

\* C15: what is emitted is the canonical spelling: every accepted spelling
\* of a decimal, whatever the whitespace around its comma, re-emits as
\* decimal(P, S) with one space after the comma, fixed[N], bucket[N] and
\* truncate[N] re-emit without spaces and N in plain decimal, and emitting
\* what was decoded from an emission gives that emission again.
C15_CanonicalEmit ==
    (job \in {"PrimitiveType", "Transform"} /\ input # Nil /\ IsStr(input)
        /\ IsOk(decoded)) =>
        /\ emitted # Nil =>
            /\ \A d \in DecimalParts(input.str) :
                    emitted = JStr(Literal.decimal \o <<"(">> \o Significant(d[1])
                                   \o <<",", " ">> \o Significant(d[2]) \o <<")">>)
            /\ \A word \in {Literal.fixed, Literal.bucket, Literal.truncate} :
                    \A n \in Bracketed(input.str, word) :
                        emitted = JStr(word \o <<"[">> \o Significant(n) \o <<"]">>)
        /\ pc = "done" =>
            /\ IsOk(redecoded)
            /\ Ser(CodecJobs[job], redecoded.Ok) = emitted

\* decimal(30 ,  20) was decoded, emitted as decimal(30, 20) and decoded
\* from that to the same value
C15_Witness ==
    /\ job = "PrimitiveType" /\ pc = "done"
    /\ input = JStr(Literal.decimal
                    \o <<"(", "3", "0", " ", ",", " ", " ", "2", "0", ")">>)
    /\ decoded = Ok([Decimal |-> [precision |-> 30, scale |-> U32(20)]])
    /\ emitted = JStr(Literal.decimal \o <<"(", "3", "0", ",", " ", "2", "0", ")">>)
    /\ redecoded = decoded

\* the members of each closed textual union
Members ==
    [PrimitiveType |->
        {<<"b", "o", "o", "l", "e", "a", "n">>, <<"i", "n", "t">>,
         <<"l", "o", "n", "g">>, <<"f", "l", "o", "a", "t">>,
         <<"d", "o", "u", "b", "l", "e">>, <<"d", "a", "t", "e">>,
         <<"t", "i", "m", "e">>,
         <<"t", "i", "m", "e", "s", "t", "a", "m", "p">>,
         <<"t", "i", "m", "e", "s", "t", "a", "m", "p", "t", "z">>,
         <<"s", "t", "r", "i", "n", "g">>, <<"u", "u", "i", "d">>,
         <<"b", "i", "n", "a", "r", "y">>},
     Transform |->
        {<<"i", "d", "e", "n", "t", "i", "t", "y">>,
         <<"y", "e", "a", "r">>, <<"m", "o", "n", "t", "h">>,
         <<"d", "a", "y">>, <<"h", "o", "u", "r">>},
     Direction |-> {<<"a", "s", "c">>, <<"d", "e", "s", "c">>},
     NullOrder |->
        {<<"n", "u", "l", "l", "s", "-", "f", "i", "r", "s", "t">>,
         <<"n", "u", "l", "l", "s", "-", "l", "a", "s", "t">>},
     Operation |->
        {<<"a", "p", "p", "e", "n", "d">>,
         <<"r", "e", "p", "l", "a", "c", "e">>,
         <<"o", "v", "e", "r", "w", "r", "i", "t", "e">>,
         <<"d", "e", "l", "e", "t", "e">>}]

\* C16: each closed textual union accepts exactly the lower-case names of
\* its members and rejects every other string, a name in another letter
\* case included: the twelve primitive type names, the transform names
\* identity, year, month, day, hour, the directions asc and desc, the null
\* orders nulls-first and nulls-last, the operations append, replace,
\* overwrite and delete.
C16_ClosedUnions ==
    LET Parameterised(str) ==
            \/ job = "PrimitiveType"
                    /\ (StartsWith(str, Literal.fixed) \/ StartsWith(str, Literal.decimal))
            \/ job = "Transform"
                    /\ (StartsWith(str, Literal.bucket) \/ StartsWith(str, Literal.truncate))
    IN  (job \in DOMAIN Members /\ input # Nil /\ IsStr(input) /\ decoded # Nil
            /\ ~Parameterised(input.str)) =>
            /\ IsOk(decoded) <=> input.str \in Members[job]
            /\ IsOk(decoded) => Cardinality(DOMAIN decoded.Ok) = 1
            /\ emitted # Nil => emitted = input

\* the direction ASC, spelled as the variant is declared, was rejected
C16_Witness ==
    /\ job = "Direction" /\ pc = "done"
    /\ input = JStr(<<"A", "S", "C">>)
    /\ IsErr(decoded)

\* the document gives the key a value other than null
Carries(doc, key) ==
    IsObj(doc) /\ HasKey(doc.obj, key) /\ ~IsNull(Get(doc.obj, key))

\* C17: decoding a V1 snapshot fails when the document gives both
\* manifest-list and manifests a value and succeeds when it gives one of
\* them or neither; so no decoded SnapshotV1 has both set.
C17_ManifestsExclusive ==
    LET AtMostOne(result) ==
            IsOk(result) => ~(/\ IsSome(result.Ok["manifest_list"])
                              /\ IsSome(result.Ok["manifests"]))
    IN  job = "SnapshotV1" =>
            /\ (input # Nil /\ decoded # Nil) =>
                    /\ IsErr(decoded) <=> (/\ Carries(input, "manifest-list")
                                            /\ Carries(input, "manifests"))
                    /\ AtMostOne(decoded)
            /\ redecoded # Nil => AtMostOne(redecoded)

\* a document with manifest-list and an empty list of manifests was
\* rejected for holding both
C17_Witness ==
    /\ job = "SnapshotV1" /\ pc = "done"
    /\ input # Nil
    /\ Get(input.obj, "manifest-list") = JStr(<<"m">>)
    /\ Get(input.obj, "manifests") = JArr(<<>>)
    /\ decoded = Err(Error("Both manifests and manifest_lists can't be present in snapshot"))

\* C18: emitting a V1 snapshot never writes a document in which both
\* manifest-list and manifests carry a value, whatever SnapshotV1 is
\* emitted, one built with both fields set included.
C18_EmitExclusive ==
    (job = "SnapshotV1" /\ emitted # Nil) =>
        ~(Carries(emitted, "manifest-list") /\ Carries(emitted, "manifests"))

\* C19: decoding a summary puts the value of operation into the typed
\* operation and every other key, with its string value, into rest, so
\* that rest never holds the key operation and holds exactly the other
\* keys; emitting writes operation and the entries of rest at one level;
\* and a summary (whose rest holds no key operation) is decoded from what
\* was emitted for it as the same summary, keys and values of rest
\* unchanged.
C19_SummaryFlattened ==
    LET Others(doc) == Keys(doc.obj) \ {"operation"}
        Readable(doc) ==
            /\ IsObj(doc)
            /\ Len(SelectSeq(doc.obj, LAMBDA e : e.k = "operation")) = 1
            /\ IsStr(Get(doc.obj, "operation"))
            /\ Get(doc.obj, "operation").str \in Members.Operation
            /\ \A i \in DOMAIN doc.obj : doc.obj[i].k # "operation" => IsStr(doc.obj[i].v)
        Split(doc, result) ==
            /\ IsOk(result) <=> Readable(doc)
            /\ IsOk(result) =>
                /\ VariantName(Operation, result.Ok["operation"])
                        = Get(doc.obj, "operation").str
                /\ DOMAIN result.Ok["rest"] = Others(doc)
                /\ \A k \in Others(doc) : result.Ok["rest"][k] = Get(doc.obj, k).str
    IN  job = "Summary" =>
            /\ (input # Nil /\ decoded # Nil) => Split(input, decoded)
            /\ (emitted # Nil /\ "operation" \notin DOMAIN decoded.Ok["rest"]) =>
                /\ IsObj(emitted)
                /\ Keys(emitted.obj) = {"operation"} \cup DOMAIN decoded.Ok["rest"]
                /\ Len(emitted.obj) = 1 + Cardinality(DOMAIN decoded.Ok["rest"])
                /\ Get(emitted.obj, "operation")
                        = JStr(VariantName(Operation, decoded.Ok["operation"]))
                /\ \A k \in DOMAIN decoded.Ok["rest"] :
                        Get(emitted.obj, k) = JStr(decoded.Ok["rest"][k])
            /\ (pc = "done" /\ IsOk(decoded)
                    /\ "operation" \notin DOMAIN decoded.Ok["rest"]) =>
                redecoded = decoded

\* a summary document with two other keys before its operation was decoded,
\* emitted and decoded again to the same summary
C19_Witness ==
    /\ job = "Summary" /\ pc = "done"
    /\ input = JObj(<<Entry("total-records", JStr(<<"5">>)),
                      Entry("added-records", JStr(<<"2">>)),
                      Entry("operation", JStr(<<"r", "e", "p", "l", "a", "c", "e">>))>>)
    /\ IsOk(decoded)
    /\ decoded.Ok["operation"] = UnitValue("Replace")
    /\ DOMAIN decoded.Ok["rest"] = {"total-records", "added-records"}
    /\ Len(emitted.obj) = 3
    /\ redecoded = decoded

\* C20: decoding a snapshot ref dispatches on type: "branch" gives a Branch
\* whose min-snapshots-to-keep and max-snapshot-age-ms are each absent when
\* the document does not give them, "tag" gives a Tag, max-ref-age-ms is
\* optional for both, and a missing type or any other value of it is an
\* error; emitting a Tag writes none of the keys only a branch has.
C20_RefDispatch ==
    LET Given(doc, key, result) ==
            IF Carries(doc, key) THEN result = Some(Get(doc.obj, key)) ELSE result = None
        GivenInt(doc, key, result) ==
            IF Carries(doc, key) THEN result = Some(Get(doc.obj, key).int) ELSE result = None
        Dispatched(doc, result) ==
            IF ~HasKey(doc.obj, "type") THEN IsErr(result)
            ELSE IF Get(doc.obj, "type") = JStr(Literal.tag)
            THEN /\ IsOk(result)
                 /\ result.Ok["ref_type"] = [Tag |-> TRUE]
                 /\ Given(doc, "max-ref-age-ms", result.Ok["max_ref_age_ms"])
            ELSE IF Get(doc.obj, "type") = JStr(Literal.branch)
            THEN IF /\ HasKey(doc.obj, "min-snapshots-to-keep")
                    /\ IsStr(Get(doc.obj, "min-snapshots-to-keep"))
                 THEN IsErr(result)
                 ELSE /\ IsOk(result)
                      /\ DOMAIN result.Ok["ref_type"] = {"Branch"}
                      /\ GivenInt(doc, "min-snapshots-to-keep",
                                  result.Ok["ref_type"].Branch["min_snapshots_to_keep"])
                      /\ Given(doc, "max-snapshot-age-ms",
                               result.Ok["ref_type"].Branch["max_snapshot_age_ms"])
                      /\ Given(doc, "max-ref-age-ms", result.Ok["max_ref_age_ms"])
            ELSE IsErr(result)
    IN  job = "SnapshotRefV2" =>
            /\ (input # Nil /\ decoded # Nil
                    /\ Len(SelectSeq(input.obj, LAMBDA e : e.k = "type")) <= 1)
                => Dispatched(input, decoded)
            /\ (emitted # Nil /\ decoded.Ok["ref_type"] = [Tag |-> TRUE]) =>
                    /\ Get(emitted.obj, "type") = JStr(Literal.tag)
                    /\ ~HasKey(emitted.obj, "min-snapshots-to-keep")
                    /\ ~HasKey(emitted.obj, "max-snapshot-age-ms")

-----------------------------------------------------------------------------
(* Further properties of the table-metadata codec (specification Spec).    *)

\* C25: the content of the statistics field of a document is preserved by
\* decode followed by encode: the emitted statistics equals the input's,
\* for V1 and V2.
C25_StatisticsPreserved ==
    (input # Nil /\ emitted # Nil /\ HasKey(input.obj, "statistics")) =>
        /\ HasKey(emitted.obj, "statistics")
        /\ Get(emitted.obj, "statistics") = Get(input.obj, "statistics")

\* C26: decoding gives a complete model or an error, never a partial one:
\* an invalid element at any depth of a document (a transform inside a
\* partition spec, a primitive inside a nested type, a V1 snapshot with both
\* manifest keys inside snapshots) makes the decode of the whole document
\* fail; no decoder puts a default in its place or leaves it out.
C26_NoPartialResult ==
    (input # Nil /\ decoded # Nil
        /\ \E f \in NestedFaults : input = SetAt(f.base, f.path, f.to))
    => IsErr(decoded)

C26_Witness ==
    /\ input = SetAt(FullV1, << <<"snapshots", 1>>, <<"manifests", 0>> >>,
                     JArr(<<JStr(<<"m">>)>>))
    /\ Len(Get(input.obj, "snapshots").arr) = 2
    /\ Carries(Get(input.obj, "snapshots").arr[1], "manifest-list")
    /\ Carries(Get(input.obj, "snapshots").arr[1], "manifests")
    /\ IsErr(decoded) /\ pc = "done"

\* C29: for every TableMetadata value built in memory, one whose inner
\* format_version disagrees with its variant included, decoding the emitted
\* document gives the same variant or an error, never the other variant.
C29_NeverOtherVariant ==
    (input = Nil /\ redecoded # Nil) =>
        IsErr(redecoded) \/ DOMAIN redecoded.Ok = DOMAIN decoded.Ok

C29_Witness ==
    /\ input = Nil /\ redecoded # Nil
    /\ "V2" \in DOMAIN decoded.Ok
    /\ decoded.Ok.V2["format_version"] = 1
    /\ Get(emitted.obj, "format-version") = JInt(1)
    /\ IsErr(redecoded)

-----------------------------------------------------------------------------
(* Properties of the manifest-list codec (specification SpecManifest).     *)

\* what a record holds under a name, inside the union if it is one; Absent
\* when it holds no such field
Held(record, name) ==
    IF ~HasKey(AvroValue(record), name) THEN Absent
    ELSE LET value == Get(AvroValue(record), name)
         IN  IF AvroKind(value) = "Union" THEN AvroValue(value).value ELSE value

\* a record as a reader gives it from a file written under a schema
ReadUnder(schema, record) ==
    /\ validate(schema, record)
    /\ decode(schema, encode(schema, record)).value = record

\* the six counters, which V1 leaves optional
Counters ==
    {"added_files_count", "existing_files_count", "deleted_files_count",
     "added_rows_count", "existing_rows_count", "deleted_rows_count"}

\* C21: decoding a record of a V1 file into ManifestListV2 gives content =
\* Data, sequence_number = 0 and min_sequence_number = 0, takes every field
\* the record carries unchanged, sets each of the six counters the record
\* does not carry to 0 and leaves partitions and key_metadata absent when
\* the record does not carry them.
C21_V1IntoV2 ==
    (job = "ManifestListV2" /\ input # Nil /\ decoded # Nil
        /\ ReadUnder(MANIFEST_LIST_V1_SCHEMA, input))
    => /\ IsOk(decoded)
       /\ decoded.Ok["content"] = UnitValue("Data")
       /\ decoded.Ok["sequence_number"] = 0
       /\ decoded.Ok["min_sequence_number"] = 0
       /\ \A name \in {"manifest_path", "manifest_length", "partition_spec_id",
                       "added_snapshot_id"} :
                decoded.Ok[name] = AvroValue(Held(input, name))
       /\ \A name \in Counters :
                decoded.Ok[name] = IF Held(input, name) = Avro("Null", TRUE) THEN 0
                                   ELSE AvroValue(Held(input, name))
       /\ \A name \in {"partitions", "key_metadata"} :
                /\ IsNone(decoded.Ok[name]) <=> Held(input, name) = Avro("Null", TRUE)
                /\ to_value(ManifestListV2.fields[
                                CHOOSE i \in DOMAIN ManifestListV2.fields :
                                    ManifestListV2.fields[i].key = name].ty,
                            decoded.Ok[name])
                   = Get(AvroValue(input), name)

\* C27: a record of a V1 file in which an optional counter is present with
\* the value null decodes into ManifestListV2, with that counter equal to 0.
C27_NullCounterIsZero ==
    (job = "ManifestListV2" /\ input # Nil /\ decoded # Nil
        /\ ReadUnder(MANIFEST_LIST_V1_SCHEMA, input))
    => \A name \in Counters :
            Held(input, name) = Avro("Null", TRUE) =>
                IsOk(decoded) /\ decoded.Ok[name] = 0

\* a record with every counter under its own name
Canonical(record) ==
    Avro("Record", [i \in DOMAIN AvroValue(record) |->
        IF \E name \in DOMAIN Aliases : Aliases[name] = AvroValue(record)[i].k
        THEN Entry(CHOOSE name \in DOMAIN Aliases : Aliases[name] = AvroValue(record)[i].k,
                   AvroValue(record)[i].v)
        ELSE AvroValue(record)[i]])

\* the names a container gives the fields of its record
WrittenNames(container) ==
    Keys(AvroValue(decode(container.schema, container.data).value))

\* C22: a record that spells a counter with the alias decodes as the record
\* that differs from it only by the counter's own name does, the same value
\* in the same field; what is written holds the counters' own names only.
C22_AliasSameSlot ==
    (/\ input # Nil /\ decoded # Nil
     /\ \E name \in DOMAIN Aliases : HasKey(AvroValue(input), Aliases[name])
     /\ \A name \in DOMAIN Aliases :
            ~(HasKey(AvroValue(input), name) /\ HasKey(AvroValue(input), Aliases[name])))
    => /\ decoded = from_value(ManifestJobs[job].ty, Canonical(input))
       /\ IsOk(decoded) =>
            \A name \in DOMAIN Aliases :
                HasKey(AvroValue(input), Aliases[name]) =>
                    decoded.Ok[name] =
                        IF job = "ManifestListV2"
                        THEN AvroValue(Held(input, Aliases[name]))
                        ELSE IF Held(input, Aliases[name]) = Avro("Null", TRUE) THEN None
                        ELSE Some(AvroValue(Held(input, Aliases[name])))
       /\ (emitted # Nil /\ IsOk(emitted)) =>
            /\ DOMAIN Aliases \subseteq WrittenNames(emitted.Ok)
            /\ \A name \in DOMAIN Aliases : Aliases[name] \notin WrittenNames(emitted.Ok)

C22_Witness ==
    /\ job = "ManifestListV2" /\ input # Nil /\ pc = "done"
    /\ ~HasKey(AvroValue(input), "added_files_count")
    /\ Held(input, "added_data_files_count") = Avro("Int", 2)
    /\ IsOk(decoded) /\ decoded.Ok["added_files_count"] = 2
    /\ IsOk(emitted)
    /\ "added_files_count" \in WrittenNames(emitted.Ok)
    /\ "added_data_files_count" \notin WrittenNames(emitted.Ok)

\* C30: a record that carries both spellings of one counter is rejected
\* with an error; the decoder never keeps one of the two values.
C30_BothSpellingsRejected ==
    (/\ input # Nil /\ decoded # Nil
     /\ \E name \in DOMAIN Aliases :
            HasKey(AvroValue(input), name) /\ HasKey(AvroValue(input), Aliases[name]))
    => IsErr(decoded)

C30_Witness ==
    /\ job = "ManifestListV2" /\ input # Nil
    /\ Held(input, "added_files_count") = Avro("Int", 2)
    /\ Held(input, "added_data_files_count") = Avro("Int", 1)
    /\ decoded = Err(ErrorAt("duplicate field", "added_files_count"))

\* C24: content is an integer enum: 0 decodes to Data, 1 to Delete, every
\* other integer is a decode error; Data is written as 0 and Delete as 1.
C24_ContentEnum ==
    job = "ManifestListV2" =>
        /\ (/\ input # Nil /\ decoded # Nil
            /\ HasKey(AvroValue(input), "content")
            /\ IsOk(from_value(Struct("ManifestListV2"),
                               Avro("Record", Without(AvroValue(input), {"content"})))))
           => LET held == Held(input, "content")
                  number == IF AvroKind(held) \in {"Int", "Long"}
                            THEN AvroValue(held) ELSE -1
              IN  IF number = 0
                  THEN IsOk(decoded) /\ decoded.Ok["content"] = UnitValue("Data")
                  ELSE IF number = 1
                  THEN IsOk(decoded) /\ decoded.Ok["content"] = UnitValue("Delete")
                  ELSE IsErr(decoded)
        /\ (emitted # Nil /\ IsOk(emitted))
           => Get(AvroValue(decode(emitted.Ok.schema, emitted.Ok.data).value), "content")
                = Avro("Int", IF decoded.Ok["content"] = UnitValue("Data") THEN 0 ELSE 1)

C24_Witness ==
    /\ job = "ManifestListV2" /\ input # Nil /\ pc = "done"
    /\ Held(input, "content") = Avro("Int", 1)
    /\ IsOk(decoded) /\ decoded.Ok["content"] = UnitValue("Delete")
    /\ IsOk(emitted)
    /\ emitted.Ok.data[4] = [varint |-> 1]

\* C23: a ManifestListV2 written with the V2 schema and read back from the
\* container is equal in every field to the one written, optional
\* partitions with their byte bounds and key_metadata included; the same
\* holds for ManifestListV1 with the V1 schema.
C23_ContainerRoundTrip ==
    (job \in DOMAIN ManifestJobs /\ pc = "done" /\ IsOk(decoded))
    => IsOk(emitted) /\ redecoded = decoded

C23_Witness ==
    /\ job = "ManifestListV2" /\ input = Nil /\ pc = "done"
    /\ IsSome(decoded.Ok["partitions"])
    /\ Len(decoded.Ok["partitions"].Some) = 2
    /\ decoded.Ok["partitions"].Some[1]["lower_bound"] = Some(<<10, 0, 0, 0>>)
    /\ decoded.Ok["partitions"].Some[2]["lower_bound"] = None
    /\ IsSome(decoded.Ok["key_metadata"])
    /\ decoded.Ok["content"] = UnitValue("Delete")
    /\ IsOk(emitted)
    /\ redecoded = decoded

-----------------------------------------------------------------------------
(* Properties of the lazily initialised statics (specification SpecLazy).  *)

\* C28: each lazily initialised static is initialised at most once and does
\* not change afterwards; under any interleaving of concurrent first calls a
\* caller that goes on to use a static finds it fully initialised, and the
\* result of every call is the one the call gives when run alone, whether or
\* not the static had been initialised before.
C28_InitialisedOnce ==
    job = "Concurrent" =>
        /\ \A s \in DOMAIN statics :
                /\ statics[s].inits <= 1
                /\ statics[s].value =
                        IF statics[s].state = "complete" THEN Some(Initialisers[s])
                        ELSE None
        /\ \A t \in DOMAIN pc :
                /\ (pc[t] \in {"use", "done"} /\ StaticOf(input[t]) # "none")
                        => statics[StaticOf(input[t])].state = "complete"
                /\ pc[t] = "done" =>
                        decoded[t] =
                            IF input[t].codec \in DOMAIN ManifestJobs
                            THEN append_ser(ManifestJobs[input[t].codec].schema,
                                            ManifestJobs[input[t].codec].ty, input[t].arg)
                            ELSE De(CodecJobs[input[t].codec], input[t].arg)

\* two threads need the same static at once: one runs its initialiser, the
\* other waits at its call
C28_Witness ==
    /\ job = "Concurrent"
    /\ StaticOf(input[1]) = "fixed" /\ StaticOf(input[2]) = "fixed"
    /\ input[1] # input[2]
    /\ pc[1] = "init" /\ pc[2] = "call"
    /\ statics["fixed"].state = "running"
    /\ \A s \in DOMAIN statics : statics[s].inits = 0

=============================================================================
